---- MODULE Spec2Model ----
(***************************************************************************)
(* Verification model of fb-cpp's value marshalling layer:                 *)
(*   - NumericConverter (src/src/lib/NumericConverter.h): scaled integer   *)
(*     rescaling with rounding and range checks, fixed-point rendering;    *)
(*   - Statement (src/src/lib/Statement.h): the per-index setters and      *)
(*     getters over the input and output message buffers.                  *)
(* Two specifications share the module: SpecNum drives the numeric         *)
(* converter over bounded inputs, Spec drives a prepared Statement.        *)
(***************************************************************************)
EXTENDS Integers, Sequences, FiniteSets, TLC

(***************************************************************************)
(* Bounds of the model.                                                    *)
(***************************************************************************)
\* Scales of scaled numbers range over -MaxScale..MaxScale.
MaxScale == 4

(***************************************************************************)
(* C++ integer arithmetic.                                                 *)
(***************************************************************************)
\* val / 10 of C++: truncation toward zero (TLA+ \div floors).
cDiv10(val) ==
    IF val >= 0 \/ val % 10 = 0 THEN val \div 10 ELSE (val \div 10) + 1

\* val % 10 of C++: the remainder takes the sign of the dividend.
cMod10(val) == val - 10 * cDiv10(val)

(***************************************************************************)
(* NumericConverter: integer types.  INT64 is left out, and INT128 values  *)
(* stay below 2^31 in magnitude, because TLC evaluates 32-bit integers.    *)
(***************************************************************************)
IntegralTypes == {"INT16", "INT32", "INT128"}

NumberTypePriorityValue(T) ==
    CASE T = "INT16" -> 1
      [] T = "INT32" -> 2
      [] T = "INT128" -> 4

GreaterNumberType(T1, T2) ==
    IF NumberTypePriorityValue(T1) >= NumberTypePriorityValue(T2) THEN T1 ELSE T2

\* std::numeric_limits<To>::min() / max() for the widths TLC can hold.
MinLimit(T) == IF T = "INT16" THEN -32768 ELSE -2147483647 - 1
MaxLimit(T) == IF T = "INT16" THEN 32767 ELSE 2147483647

\* val < minLimit, val > maxLimit, val < minLimit / 10, val > maxLimit / 10.
\* The 128-bit limits are beyond every value the model holds (|val| < 2^31),
\* so the comparisons against them are false.
BelowMin(T, val) == T # "INT128" /\ val < MinLimit(T)
AboveMax(T, val) == T # "INT128" /\ val > MaxLimit(T)
BelowMinDiv10(T, val) == T # "INT128" /\ val < cDiv10(MinLimit(T))
AboveMaxDiv10(T, val) == T # "INT128" /\ val > cDiv10(MaxLimit(T))

NumOk(v) == [status |-> "ok", value |-> v]
NumFail(s) == [status |-> s, value |-> 0]

\* adjustScale, scale > 0: do { if (scale == 1) fraction = val % 10;
\* val /= 10; } while (--scale); gives <<val, fraction>>.
RECURSIVE adjustScaleDown(_, _, _)
adjustScaleDown(val, scale, fraction) ==
    LET f == IF scale = 1 THEN cMod10(val) ELSE fraction
        v == cDiv10(val)
    IN  IF scale - 1 = 0 THEN <<v, f>> ELSE adjustScaleDown(v, scale - 1, f)

\* adjustScale, scale < 0: do { range checks; val *= 10; range checks }
\* while (++scale), against the limits of the destination type To.
RECURSIVE adjustScaleUp(_, _, _)
adjustScaleUp(val, scale, To) ==
    IF AboveMaxDiv10(To, val) \/ BelowMinDiv10(To, val)
    THEN NumFail("NumericRange")
    ELSE LET v == val * 10
         IN  IF AboveMax(To, v) \/ BelowMin(To, v)
             THEN NumFail("NumericRange")
             ELSE IF scale + 1 = 0 THEN NumOk(v) ELSE adjustScaleUp(v, scale + 1, To)

\* Variant of adjustScale that rounds a discarded 5..9 up but leaves a
\* discarded -5..-9 truncated (rounding half up instead of half away from
\* zero).
adjustScaleHalfUp(val, scale, To) ==
    IF scale > 0
    THEN LET r == adjustScaleDown(val, scale, 0)
         IN  IF r[2] > 4 THEN NumOk(r[1] + 1) ELSE NumOk(r[1])
    ELSE IF scale < 0 THEN adjustScaleUp(val, scale, To)
    ELSE NumOk(val)

\* Variant of adjustScale that divides by ten once, however many digits
\* are to be discarded (an if in place of the do-while loop).
adjustScaleSingleDivision(val, scale, To) ==
    IF scale > 0
    THEN LET r == adjustScaleDown(val, 1, 0)
         IN  IF r[2] > 4 THEN NumOk(r[1] + 1)
             ELSE IF r[2] < -4 THEN NumOk(r[1] - 1)
             ELSE NumOk(r[1])
    ELSE IF scale < 0 THEN adjustScaleUp(val, scale, To)
    ELSE NumOk(val)

\* Variant of adjustScale that rounds a discarded -5 toward zero and only
\* -6..-9 away from it.
adjustScaleNegativeHalfDown(val, scale, To) ==
    IF scale > 0
    THEN LET r == adjustScaleDown(val, scale, 0)
         IN  IF r[2] > 4 THEN NumOk(r[1] + 1)
             ELSE IF r[2] < -5 THEN NumOk(r[1] - 1)
             ELSE NumOk(r[1])
    ELSE IF scale < 0 THEN adjustScaleUp(val, scale, To)
    ELSE NumOk(val)

adjustScale(val, scale, To) ==
    IF scale > 0
    THEN LET r == adjustScaleDown(val, scale, 0)
         IN  IF r[2] > 4 THEN NumOk(r[1] + 1)
             ELSE IF r[2] < -4 THEN NumOk(r[1] - 1)
             ELSE NumOk(r[1])
    ELSE IF scale < 0 THEN adjustScaleUp(val, scale, To)
    ELSE NumOk(val)

\* Variant of numberToNumber without the range check of the result against
\* the destination type.
numberToNumberUnchecked(To, from, toScale) ==
    LET scaleDiff == toScale - from.scale
    IN  IF scaleDiff # 0 THEN adjustScale(from.value, scaleDiff, To)
        ELSE NumOk(from.value)

\* numberToNumber<To>(ScaledNumber<From>, toScale), integral to integral.
\* from is [type, value, scale]; the computation runs in
\* GreaterNumberType(from.type, To), which the range checks keep from
\* overflowing.
numberToNumber(To, from, toScale) ==
    LET scaleDiff == toScale - from.scale
        result == IF scaleDiff # 0 THEN adjustScale(from.value, scaleDiff, To)
                  ELSE NumOk(from.value)
    IN  IF result.status # "ok" THEN result
        ELSE IF BelowMin(To, result.value) \/ AboveMax(To, result.value)
             THEN NumFail("NumericRange")
             ELSE result


\* numberToString(ScaledNumber<From>), integral: the decimal digits of the
\* magnitude, least significant first (buffer[0..digitCount-1]).  The code
\* takes them from the unsigned counterpart of the value; here the first
\* digit and quotient are taken from the signed value, which gives the same
\* digits and keeps the minimum of the type within 32 bits.
RECURSIVE digitsOf(_)
digitsOf(u) ==
    IF u < 10 THEN <<u>> ELSE <<u % 10>> \o digitsOf(u \div 10)

digitBuffer(value) ==
    LET lowest == IF value < 0 THEN 0 - cMod10(value) ELSE value % 10
        rest == IF value < 0 THEN 0 - cDiv10(value) ELSE value \div 10
    IN  IF rest > 0 THEN <<lowest>> \o digitsOf(rest) ELSE <<lowest>>

DigitChars == <<"0", "1", "2", "3", "4", "5", "6", "7", "8", "9">>
digitChar(d) == DigitChars[d + 1]

\* buffer[hi], buffer[hi - 1], ..., buffer[lo] as text (0-based positions).
RECURSIVE bufferText(_, _, _)
bufferText(buffer, hi, lo) ==
    IF hi < lo THEN <<>>
    ELSE <<digitChar(buffer[hi + 1])>> \o bufferText(buffer, hi - 1, lo)

RECURSIVE zeros(_)
zeros(n) == IF n <= 0 THEN <<>> ELSE <<"0">> \o zeros(n - 1)

\* Variant of numberToString that writes the leading "0." only when the
\* value has fewer digits than decimal places (> in place of >=).
numberToStringLatePadding(from) ==
    LET buffer == digitBuffer(from.value)
        digitCount == Len(buffer)
        sign == IF from.value < 0 THEN <<"-">> ELSE <<>>
        decimalPlaces == 0 - from.scale
    IN  IF from.scale >= 0
        THEN sign \o bufferText(buffer, digitCount - 1, 0) \o zeros(from.scale)
        ELSE IF decimalPlaces > digitCount
             THEN sign \o <<"0", ".">> \o zeros(decimalPlaces - digitCount)
                       \o bufferText(buffer, digitCount - 1, 0)
             ELSE sign \o bufferText(buffer, digitCount - 1, decimalPlaces)
                       \o <<".">> \o bufferText(buffer, decimalPlaces - 1, 0)

numberToString(from) ==
    LET buffer == digitBuffer(from.value)
        digitCount == Len(buffer)
        sign == IF from.value < 0 THEN <<"-">> ELSE <<>>
        decimalPlaces == 0 - from.scale
    IN  IF from.scale >= 0
        THEN sign \o bufferText(buffer, digitCount - 1, 0) \o zeros(from.scale)
        ELSE IF decimalPlaces >= digitCount
             THEN sign \o <<"0", ".">> \o zeros(decimalPlaces - digitCount)
                       \o bufferText(buffer, digitCount - 1, 0)
             ELSE sign \o bufferText(buffer, digitCount - 1, decimalPlaces)
                       \o <<".">> \o bufferText(buffer, decimalPlaces - 1, 0)

\* stringToBoolean: trims white space, lower-cases and compares.
IsSpace(c) == c = " "

RECURSIVE trimFront(_)
trimFront(t) ==
    IF t # <<>> /\ IsSpace(Head(t)) THEN trimFront(Tail(t)) ELSE t

RECURSIVE trimBack(_)
trimBack(t) ==
    IF t # <<>> /\ IsSpace(t[Len(t)]) THEN trimBack(SubSeq(t, 1, Len(t) - 1)) ELSE t

toLower(c) ==
    CASE c = "T" -> "t" [] c = "R" -> "r" [] c = "U" -> "u" [] c = "E" -> "e"
      [] c = "F" -> "f" [] c = "A" -> "a" [] c = "L" -> "l" [] c = "S" -> "s"
      [] OTHER -> c

stringToBoolean(value) ==
    LET trimmed == trimBack(trimFront(value))
        normalized == [i \in 1..Len(trimmed) |-> toLower(trimmed[i])]
    IN  IF normalized = <<"t", "r", "u", "e">> THEN NumOk(1)
        ELSE IF normalized = <<"f", "a", "l", "s", "e">> THEN NumOk(0)
        ELSE NumFail("ConversionErrorFromString")

(***************************************************************************)
(* Statement: descriptors and message buffers.                             *)
(* A descriptor is [adjustedType, scale, length]; a message holds, per     *)
(* descriptor, the 2-byte null flag and the value region.  The value       *)
(* region is kept as the value its bytes encode: a byte for BOOLEAN, an    *)
(* integer for INT16 and INT32, the text for STRING.  Indexes are 0-based  *)
(* as in the code, sequences 1-based.                                      *)
(* Modelled adjusted types: BOOLEAN, INT16, INT32, STRING and BLOB (a type *)
(* none of the modelled accessors handles).  The Boost.Multiprecision      *)
(* build is modelled (config.h), so setString parses into BoostInt128.     *)
(***************************************************************************)
FB_FALSE == 0
FB_TRUE == 1

Descriptor(t, s, l) == [adjustedType |-> t, scale |-> s, length |-> l]

\* std::optional: std::nullopt is <<>>, a present value v is <<v>>.
NullOpt == <<>>
Some(v) == <<v>>
HasValue(opt) == opt # NullOpt

NullWrite(index, flag) == [kind |-> "null", index |-> index, value |-> flag]
ValueWrite(index, v) == [kind |-> "value", index |-> index, value |-> v]

\* The message after the writes ws, applied in order.
RECURSIVE ApplyWrites(_, _)
ApplyWrites(message, ws) ==
    IF ws = <<>> THEN message
    ELSE LET w == Head(ws)
             slot == message[w.index + 1]
             written == IF w.kind = "null"
                        THEN [slot EXCEPT !.nullFlag = w.value]
                        ELSE [slot EXCEPT !.value = w.value]
         IN  ApplyWrites([message EXCEPT ![w.index + 1] = written], Tail(ws))

\* What a setter did: the exception it threw (status) or "ok", and its
\* writes to the input message in program order.
Thrown(status) == [status |-> status, writes |-> <<>>]
Wrote(ws) == [status |-> "ok", writes |-> ws]

\* getInDescriptor / getOutDescriptor: index >= size throws std::out_of_range.
IndexInRange(descriptors, index) == index < Len(descriptors)

\* Variant of clearParameters that marks the first parameter only.
clearParametersOfFirst(descriptors) ==
    Wrote([i \in 1..1 |-> NullWrite(i - 1, FB_TRUE)])

clearParameters(descriptors) ==
    Wrote([i \in 1..Len(descriptors) |-> NullWrite(i - 1, FB_TRUE)])

\* Variant of setNull that checks the index and writes nothing.
setNullSkippingWrite(descriptors, index) ==
    IF ~IndexInRange(descriptors, index) THEN Thrown("out_of_range")
    ELSE Wrote(<<>>)

setNull(descriptors, index) ==
    IF ~IndexInRange(descriptors, index) THEN Thrown("out_of_range")
    ELSE Wrote(<<NullWrite(index, FB_TRUE)>>)

\* Variant of setBool that clears the null flag before it checks the type.
setBoolClearingFirst(descriptors, index, optValue) ==
    IF ~HasValue(optValue) THEN setNull(descriptors, index)
    ELSE IF ~IndexInRange(descriptors, index) THEN Thrown("out_of_range")
    ELSE IF descriptors[index + 1].adjustedType = "BOOLEAN"
         THEN Wrote(<<NullWrite(index, FB_FALSE),
                      ValueWrite(index, IF optValue[1] THEN 1 ELSE 0)>>)
         ELSE [status |-> "InvalidType", writes |-> <<NullWrite(index, FB_FALSE)>>]

setBool(descriptors, index, optValue) ==
    IF ~HasValue(optValue) THEN setNull(descriptors, index)
    ELSE IF ~IndexInRange(descriptors, index) THEN Thrown("out_of_range")
    ELSE IF descriptors[index + 1].adjustedType = "BOOLEAN"
         THEN Wrote(<<ValueWrite(index, IF optValue[1] THEN 1 ELSE 0),
                      NullWrite(index, FB_FALSE)>>)
         ELSE Thrown("InvalidType")

\* convertNumber<To>(descriptor, data, toScale): descriptor describes the
\* source value data; an empty toScale takes the descriptor's scale.  Gives
\* [status, value, scale].
convertNumber(To, descriptor, data, toScale) ==
    LET scale == IF HasValue(toScale) THEN toScale[1] ELSE descriptor.scale
    IN  IF descriptor.adjustedType \in IntegralTypes
        THEN LET r == numberToNumber(To,
                          [type |-> descriptor.adjustedType, value |-> data,
                           scale |-> descriptor.scale], scale)
             IN  [status |-> r.status, value |-> r.value, scale |-> scale]
        ELSE [status |-> "InvalidType", value |-> 0, scale |-> scale]

\* Variant of setNumber that marks the slot null before it converts, so
\* that a failed call leaves the slot null.
setNumberNullingFirst(descriptors, index, valueType, value, scale) ==
    IF ~IndexInRange(descriptors, index) THEN Thrown("out_of_range")
    ELSE LET descriptor == descriptors[index + 1]
             valueDescriptor == Descriptor(valueType, scale, 0)
             nulled == <<NullWrite(index, FB_TRUE)>>
         IN  IF descriptor.adjustedType \in {"INT16", "INT32"}
             THEN LET r == convertNumber(descriptor.adjustedType, valueDescriptor,
                                         value, Some(descriptor.scale))
                  IN  IF r.status # "ok"
                      THEN [status |-> r.status, writes |-> nulled]
                      ELSE Wrote(<<ValueWrite(index, r.value),
                                   NullWrite(index, FB_FALSE)>>)
             ELSE [status |-> "InvalidType", writes |-> nulled]

\* Variant of setNumber that accepts only the descriptor whose adjustedType
\* is the type of the value.
setNumberExactType(descriptors, index, valueType, value, scale) ==
    IF ~IndexInRange(descriptors, index) THEN Thrown("out_of_range")
    ELSE LET descriptor == descriptors[index + 1]
             valueDescriptor == Descriptor(valueType, scale, 0)
         IN  IF descriptor.adjustedType = valueType
             THEN LET r == convertNumber(descriptor.adjustedType, valueDescriptor,
                                         value, Some(descriptor.scale))
                  IN  IF r.status # "ok" THEN Thrown(r.status)
                      ELSE Wrote(<<ValueWrite(index, r.value),
                                   NullWrite(index, FB_FALSE)>>)
             ELSE Thrown("InvalidType")

\* setNumber(index, valueType, value, scale, typeName)
setNumber(descriptors, index, valueType, value, scale) ==
    IF ~IndexInRange(descriptors, index) THEN Thrown("out_of_range")
    ELSE LET descriptor == descriptors[index + 1]
             valueDescriptor == Descriptor(valueType, scale, 0)
         IN  IF descriptor.adjustedType \in {"INT16", "INT32"}
             THEN LET r == convertNumber(descriptor.adjustedType, valueDescriptor,
                                         value, Some(descriptor.scale))
                  IN  IF r.status # "ok" THEN Thrown(r.status)
                      ELSE Wrote(<<ValueWrite(index, r.value),
                                   NullWrite(index, FB_FALSE)>>)
             ELSE Thrown("InvalidType")

setInt16(descriptors, index, optValue) ==
    IF ~HasValue(optValue) THEN setNull(descriptors, index)
    ELSE setNumber(descriptors, index, "INT16", optValue[1], 0)

setScaledInt16(descriptors, index, optValue) ==
    IF ~HasValue(optValue) THEN setNull(descriptors, index)
    ELSE setNumber(descriptors, index, "INT16", optValue[1].value, optValue[1].scale)

setInt32(descriptors, index, optValue) ==
    IF ~HasValue(optValue) THEN setNull(descriptors, index)
    ELSE setNumber(descriptors, index, "INT32", optValue[1], 0)

setScaledInt32(descriptors, index, optValue) ==
    IF ~HasValue(optValue) THEN setNull(descriptors, index)
    ELSE setNumber(descriptors, index, "INT32", optValue[1].value, optValue[1].scale)

setScaledBoostInt128(descriptors, index, optValue) ==
    IF ~HasValue(optValue) THEN setNull(descriptors, index)
    ELSE setNumber(descriptors, index, "INT128", optValue[1].value, optValue[1].scale)

IsDigit(c) == c \in {"0", "1", "2", "3", "4", "5", "6", "7", "8", "9"}
digitValue(c) == CHOOSE d \in 0..9 : DigitChars[d + 1] = c

\* strValue.find_last_of('.'): the 1-based position of the last '.', 0 if none.
findLastDot(text) ==
    IF \E i \in 1..Len(text) : text[i] = "."
    THEN CHOOSE i \in 1..Len(text) :
            text[i] = "." /\ \A j \in (i + 1)..Len(text) : text[j] # "."
    ELSE 0

\* The number of digits that follow position pos without interruption.
RECURSIVE digitRun(_, _)
digitRun(text, pos) ==
    IF pos + 1 <= Len(text) /\ IsDigit(text[pos + 1])
    THEN 1 + digitRun(text, pos + 1)
    ELSE 0

eraseAt(text, pos) == SubSeq(text, 1, pos - 1) \o SubSeq(text, pos + 1, Len(text))

\* BoostInt128 (boost::multiprecision::int128_t): a sign and a magnitude of
\* 128 bits with unchecked arithmetic, so that a magnitude that outgrows the
\* 128 bits is cut to its low 128 bits.  The magnitude is a sequence of
\* Int128Limbs limbs of 16 bits, lowest limb first.
Int128Limbs == 8
LimbBase == 2 ^ 16

BigZero == [i \in 1..Int128Limbs |-> 0]

\* The limbs i.. of mag * m + carry, and after them the carry out of the
\* top limb.
RECURSIVE bigMulAddFrom(_, _, _, _)
bigMulAddFrom(mag, i, m, carry) ==
    IF i > Len(mag) THEN <<carry>>
    ELSE LET t == mag[i] * m + carry
         IN  <<t % LimbBase>> \o bigMulAddFrom(mag, i + 1, m, t \div LimbBase)

\* mag * m + add as [mag, carry]: the low 128 bits and what was cut off.
bigMulAdd(mag, m, add) ==
    LET r == bigMulAddFrom(mag, 1, m, add)
    IN  [mag |-> SubSeq(r, 1, Int128Limbs), carry |-> r[Int128Limbs + 1]]

\* The limbs 1..i of mag / 10 and the remainder, by long division from the
\* top limb down.
RECURSIVE bigDivFrom(_, _, _)
bigDivFrom(mag, i, rem) ==
    IF i = 0 THEN <<<<>>, rem>>
    ELSE LET t == rem * LimbBase + mag[i]
             r == bigDivFrom(mag, i - 1, t % 10)
         IN  <<Append(r[1], t \div 10), r[2]>>

bigDiv10(mag) ==
    LET r == bigDivFrom(mag, Int128Limbs, 0)
    IN  [mag |-> r[1], rem |-> r[2]]

\* The magnitude is below 2^31.
bigFitsInt(mag) ==
    /\ \A i \in 3..Int128Limbs : mag[i] = 0
    /\ mag[2] < LimbBase \div 2

bigToInt(big) ==
    LET m == big.mag[1] + big.mag[2] * LimbBase
    IN  IF big.neg THEN 0 - m ELSE m

\* The digit loop of parseDecimalToBoostInt128: result *= 10; result += digit,
\* in unchecked 128-bit arithmetic.  (The test of the length is always true
\* and makes TLC evaluate the accumulator at every digit.)
RECURSIVE parseDigits(_, _)
parseDigits(text, acc) ==
    IF text = <<>> THEN [status |-> "ok", mag |-> acc]
    ELSE IF ~IsDigit(Head(text)) THEN [status |-> "NumericRange", mag |-> acc]
    ELSE LET result == bigMulAdd(acc, 10, digitValue(Head(text))).mag
         IN  IF Len(result) = Int128Limbs THEN parseDigits(Tail(text), result)
             ELSE [status |-> "ok", mag |-> result]

\* Gives [status, neg, mag].
parseDecimalToBoostInt128(text) ==
    LET signed == text # <<>> /\ Head(text) \in {"+", "-"}
        isNegative == signed /\ Head(text) = "-"
        digits == IF signed THEN Tail(text) ELSE text
    IN  IF digits = <<>>
        THEN [status |-> "NumericRange", neg |-> FALSE, mag |-> BigZero]
        ELSE LET r == parseDigits(digits, BigZero)
             IN  [status |-> r.status, neg |-> isNegative,
                  mag |-> r.mag]

\* adjustScale<BoostInt128>, scale > 0: the magnitude divided by ten scale
\* times, with the last remainder.  (The test of the remainder is always
\* false and makes TLC evaluate each quotient before the next division.)
RECURSIVE bigAdjustScaleDown(_, _)
bigAdjustScaleDown(mag, scale) ==
    LET d == bigDiv10(mag)
    IN  IF scale = 1 \/ d.rem > 9 THEN d ELSE bigAdjustScaleDown(d.mag, scale - 1)

\* adjustScale<BoostInt128>, scale < 0: the multiplication by ten guarded by
\* val > maxLimit / 10 and val < minLimit / 10, which is the carry out of
\* the 128 bits.
RECURSIVE bigAdjustScaleUp(_, _)
bigAdjustScaleUp(mag, scale) ==
    LET p == bigMulAdd(mag, 10, 0)
    IN  IF p.carry # 0 THEN [status |-> "NumericRange", mag |-> mag]
        ELSE IF scale + 1 = 0 THEN [status |-> "ok", mag |-> p.mag]
        ELSE bigAdjustScaleUp(p.mag, scale + 1)

\* Variant of bigNumberToNumber that truncates the discarded digits.
bigNumberToNumberTruncating(mag, fromScale, toScale) ==
    LET scaleDiff == toScale - fromScale
    IN  IF scaleDiff > 0
        THEN [status |-> "ok", mag |-> bigAdjustScaleDown(mag, scaleDiff).mag]
        ELSE IF scaleDiff < 0 THEN bigAdjustScaleUp(mag, scaleDiff)
        ELSE [status |-> "ok", mag |-> mag]

\* numberToNumber<BoostInt128>(ScaledBoostInt128, toScale) on the magnitude:
\* the truncating division and the rounding away from zero act on the
\* magnitude alike for both signs.
bigNumberToNumber(mag, fromScale, toScale) ==
    LET scaleDiff == toScale - fromScale
    IN  IF scaleDiff > 0
        THEN LET d == bigAdjustScaleDown(mag, scaleDiff)
             IN  [status |-> "ok",
                  mag |-> IF d.rem > 4 THEN bigMulAdd(d.mag, 1, 1).mag ELSE d.mag]
        ELSE IF scaleDiff < 0 THEN bigAdjustScaleUp(mag, scaleDiff)
        ELSE [status |-> "ok", mag |-> mag]

\* setString, the INT16 / INT32 / INT64 / INT128 case.  The value handed to
\* setScaledBoostInt128 is converted to the descriptor's integer type with
\* its range check, which a magnitude of 2^31 or more fails.
setStringExactNumeric(descriptors, index, value) ==
    LET descriptor == descriptors[index + 1]
        dotPos == findLastDot(value)
        scale == IF dotPos # 0 THEN 0 - digitRun(value, dotPos) ELSE 0
        strValue == IF dotPos # 0 THEN eraseAt(value, dotPos) ELSE value
        parsed == parseDecimalToBoostInt128(strValue)
    IN  IF parsed.status # "ok" THEN Thrown(parsed.status)
        ELSE LET r == IF scale # descriptor.scale
                      THEN bigNumberToNumber(parsed.mag, scale, descriptor.scale)
                      ELSE [status |-> "ok", mag |-> parsed.mag]
             IN  IF r.status # "ok" THEN Thrown(r.status)
                 ELSE IF ~bigFitsInt(r.mag) THEN Thrown("NumericRange")
                 ELSE setScaledBoostInt128(descriptors, index,
                          Some([value |-> bigToInt([neg |-> parsed.neg, mag |-> r.mag]),
                                scale |-> descriptor.scale]))

setString(descriptors, index, optValue) ==
    IF ~HasValue(optValue) THEN setNull(descriptors, index)
    ELSE IF ~IndexInRange(descriptors, index) THEN Thrown("out_of_range")
    ELSE LET value == optValue[1]
             descriptor == descriptors[index + 1]
             type == descriptor.adjustedType
         IN  IF type = "BOOLEAN"
             THEN LET r == stringToBoolean(value)
                  IN  IF r.status # "ok" THEN Thrown(r.status)
                      ELSE Wrote(<<ValueWrite(index, r.value),
                                   NullWrite(index, FB_FALSE)>>)
             ELSE IF type \in {"INT16", "INT32"}
             THEN setStringExactNumeric(descriptors, index, value)
             ELSE IF type = "STRING"
             THEN IF Len(value) > descriptor.length THEN Thrown("StringTruncation")
                  ELSE Wrote(<<ValueWrite(index, value), NullWrite(index, FB_FALSE)>>)
             ELSE Thrown("InvalidType")

(***************************************************************************)
(* Statement: the readers.  A reader gives [status, value, writes]: the    *)
(* exception it threw or "ok", the optional it returned, and its writes to *)
(* the output message (the code performs none).                            *)
(***************************************************************************)
Returned(v) == [status |-> "ok", value |-> v, writes |-> <<>>]
ReadThrown(status) == [status |-> status, value |-> NullOpt, writes |-> <<>>]

IsNullFlag(message, index) == message[index + 1].nullFlag # FB_FALSE

isNull(descriptors, message, index) ==
    IF ~IndexInRange(descriptors, index) THEN ReadThrown("out_of_range")
    ELSE Returned(IsNullFlag(message, index))

\* Variant of getBool that checks the type before the null flag.
getBoolTypeFirst(descriptors, message, index) ==
    IF ~IndexInRange(descriptors, index) THEN ReadThrown("out_of_range")
    ELSE IF descriptors[index + 1].adjustedType # "BOOLEAN" THEN ReadThrown("InvalidType")
    ELSE IF IsNullFlag(message, index) THEN Returned(NullOpt)
    ELSE Returned(Some(message[index + 1].value # 0))

getBool(descriptors, message, index) ==
    IF ~IndexInRange(descriptors, index) THEN ReadThrown("out_of_range")
    ELSE IF IsNullFlag(message, index) THEN Returned(NullOpt)
    ELSE IF descriptors[index + 1].adjustedType = "BOOLEAN"
         THEN Returned(Some(message[index + 1].value # 0))
         ELSE ReadThrown("InvalidType")

\* Variant of getNumber that stores the converted value back into the
\* column it read.
getNumberWritingBack(To, descriptors, message, index, scale) ==
    IF ~IndexInRange(descriptors, index) THEN ReadThrown("out_of_range")
    ELSE IF IsNullFlag(message, index) THEN Returned(NullOpt)
    ELSE LET r == convertNumber(To, descriptors[index + 1],
                                message[index + 1].value, scale)
         IN  IF r.status # "ok" THEN ReadThrown(r.status)
             ELSE [status |-> "ok",
                   value |-> Some([value |-> r.value, scale |-> r.scale]),
                   writes |-> <<ValueWrite(index, r.value)>>]

\* getNumber<T>(index, scale, typeName): gives the converted value with the
\* scale it is expressed in.
getNumber(To, descriptors, message, index, scale) ==
    IF ~IndexInRange(descriptors, index) THEN ReadThrown("out_of_range")
    ELSE IF IsNullFlag(message, index) THEN Returned(NullOpt)
    ELSE LET r == convertNumber(To, descriptors[index + 1],
                                message[index + 1].value, scale)
         IN  IF r.status # "ok" THEN ReadThrown(r.status)
             ELSE Returned(Some([value |-> r.value, scale |-> r.scale]))

getInt16(descriptors, message, index) ==
    LET r == getNumber("INT16", descriptors, message, index, Some(0))
    IN  IF HasValue(r.value) THEN [r EXCEPT !.value = Some(r.value[1].value)] ELSE r

getScaledInt16(descriptors, message, index) ==
    getNumber("INT16", descriptors, message, index, NullOpt)

getInt32(descriptors, message, index) ==
    LET r == getNumber("INT32", descriptors, message, index, Some(0))
    IN  IF HasValue(r.value) THEN [r EXCEPT !.value = Some(r.value[1].value)] ELSE r

getScaledInt32(descriptors, message, index) ==
    getNumber("INT32", descriptors, message, index, NullOpt)

\* Variant of getString that rejects a column of a type it does not handle
\* before it looks at the null flag.
getStringTypeFirst(descriptors, message, index) ==
    IF ~IndexInRange(descriptors, index) THEN ReadThrown("out_of_range")
    ELSE LET descriptor == descriptors[index + 1]
             type == descriptor.adjustedType
             data == message[index + 1].value
         IN  IF type \notin {"BOOLEAN", "INT16", "INT32", "STRING"}
             THEN ReadThrown("InvalidType")
             ELSE IF IsNullFlag(message, index) THEN Returned(NullOpt)
             ELSE IF type = "BOOLEAN"
             THEN Returned(Some(IF data # 0 THEN <<"t", "r", "u", "e">>
                                ELSE <<"f", "a", "l", "s", "e">>))
             ELSE IF type = "STRING" THEN Returned(Some(data))
             ELSE Returned(Some(numberToString(
                      [value |-> data, scale |-> descriptor.scale])))

getString(descriptors, message, index) ==
    IF ~IndexInRange(descriptors, index) THEN ReadThrown("out_of_range")
    ELSE IF IsNullFlag(message, index) THEN Returned(NullOpt)
    ELSE LET descriptor == descriptors[index + 1]
             type == descriptor.adjustedType
             data == message[index + 1].value
         IN  IF type = "BOOLEAN"
             THEN Returned(Some(IF data # 0 THEN <<"t", "r", "u", "e">>
                                ELSE <<"f", "a", "l", "s", "e">>))
             ELSE IF type \in {"INT16", "INT32"}
             THEN Returned(Some(numberToString(
                      [value |-> data, scale |-> descriptor.scale])))
             ELSE IF type = "STRING" THEN Returned(Some(data))
             ELSE ReadThrown("InvalidType")

(***************************************************************************)
(* EventListener.  The engine holds the registrations made by queEvents,   *)
(* each of which fires once and runs the listener's callback on a thread   *)
(* of the engine; stop() runs on the thread of the user; dispatchLoop on   *)
(* the dispatcher thread.  A step of a thread is one critical section of   *)
(* the mutex or one call made outside of it.                               *)
(***************************************************************************)
\* The number of registrations the engine accepts, and so of its callbacks.
MaxHandles == 3

\* The largest count of an event that is posted.
MaxPosts == 2

\* EventListener::eventNames, in registration order
EventNames == <<"a", "b">>

Handles == 1..MaxHandles
NoHandle == 0

EventIndexes == 1..Len(EventNames)

\* The counts of an event block, per event.
ZeroCounts == [i \in EventIndexes |-> 0]

\* decodeEventCounts: the increase of each event from the baseline in
\* eventBuffer to the block in resultBuffer, 0 when the count fell; the
\* block becomes the baseline.
decodeEventCountsKeepingBaseline(eventBuffer, resultBuffer) ==
    [rawCounts |->
        [i \in EventIndexes |->
            IF resultBuffer[i] >= eventBuffer[i]
            THEN resultBuffer[i] - eventBuffer[i] ELSE 0],
     eventBuffer |-> eventBuffer]
decodeEventCounts(eventBuffer, resultBuffer) ==
    [rawCounts |->
        [i \in EventIndexes |->
            IF resultBuffer[i] >= eventBuffer[i]
            THEN resultBuffer[i] - eventBuffer[i] ELSE 0],
     eventBuffer |-> resultBuffer]

\* The counts vector that handleEvent builds from rawCounts: an EventCount
\* for each event whose value is not 0, in the order of eventNames.
RECURSIVE countsFrom(_, _)
countsFrom(rawCounts, i) ==
    IF i > Len(EventNames) THEN <<>>
    ELSE (IF rawCounts[i] # 0
          THEN <<[name |-> EventNames[i], count |-> rawCounts[i]]>>
          ELSE <<>>) \o countsFrom(rawCounts, i + 1)

\* condition.notify_one() and notify_all(): the dispatcher, the only thread
\* that waits on the condition, wakes if it is waiting; otherwise the
\* notification is lost.
notifyNone(d) == d
notify(d) == IF d.pc = "waiting" THEN [d EXCEPT !.pc = "check"] ELSE d

\* The registrations after the last critical section of handleEvent.  When
\* the listener no longer listens, newHandle is destroyed without cancel():
\* its release() leaves the registration as it is or ends it, as the engine
\* decides.
released(regs, kept, newHandle) ==
    IF kept \/ regs[newHandle] # "active"
    THEN {regs}
    ELSE {regs, [regs EXCEPT ![newHandle] = "released"]}

\* dispatcher.join() returns once dispatchLoop has returned.
joinedAtOnce(d) == TRUE
joined(d) == d.pc = "exited"

\* The first critical section of handleEvent, on the listener's state s
\* (listening, first, eventBuffer, pendingNotifications) with the block of
\* the engine: the state after it, whether a notification was enqueued and
\* whether the registration is to be renewed.
handleEventLocked(s, length, events) ==
    IF ~s.listening
    THEN [state |-> s, notify |-> FALSE, shouldRequeue |-> FALSE]
    ELSE IF length = 0
    THEN [state |-> s, notify |-> FALSE, shouldRequeue |-> FALSE]
    ELSE LET decoded == decodeEventCounts(s.eventBuffer, events)
             counts == countsFrom(decoded.rawCounts, 1)
             enqueue == s.first /\ counts # <<>>
         IN  [state |->
                [listening |-> s.listening,
                 first |-> TRUE,
                 eventBuffer |-> decoded.eventBuffer,
                 pendingNotifications |->
                    IF enqueue THEN Append(s.pendingNotifications, counts)
                    ELSE s.pendingNotifications],
              notify |-> enqueue,
              shouldRequeue |-> s.listening]

(***************************************************************************)
(* Transaction (Transaction.h, Transaction.cpp).                           *)
(***************************************************************************)
MaxTransactions == 2
\* engine calls that the operations of the user may make
MaxCalls == 2

Transactions == 1..MaxTransactions

\* The empty FbRef<ITransaction>: handle == nullptr.
NoTransaction == 0
\* The handle that startTransaction returned.
StartedTransaction == 1

\* Transaction::isValid
isValid(handle) == handle # NoTransaction

\* Transaction::commit: the handle after handle->commit(), which throws
\* when the engine reports an error (ok is FALSE), before handle.reset().
commitAlwaysResets(handle, ok) == NoTransaction
commit(handle, ok) == IF ok THEN NoTransaction ELSE handle

\* Transaction::rollback: likewise.
rollbackAlwaysResets(handle, ok) == NoTransaction
rollback(handle, ok) == IF ok THEN NoTransaction ELSE handle

\* The calls that reach the engine from object t when it calls the method
\* call of its handle: the call itself and, when the handle is then reset
\* or destroyed while not null, the release() of FbRef.
engineCalls(t, call, ok, releases) ==
    <<[by |-> t, call |-> call, ok |-> ok]>> \o
    (IF releases THEN <<[by |-> t, call |-> "release", ok |-> TRUE]>> ELSE <<>>)

(***************************************************************************)
(* State.                                                                  *)
(***************************************************************************)
VARIABLES
    nFrom,          \* SpecNum: the ScaledNumber given to the converter, with its type
    nTo,            \* SpecNum: the destination integer type
    nPath,          \* SpecNum: the destination scales of the conversions applied
    nCur,           \* SpecNum: the result of the last conversion
    inDescriptors,  \* Statement::inDescriptors
    outDescriptors, \* Statement::outDescriptors
    inMessage,      \* Statement::inMessage, per slot: null flag and value region
    outMessage,     \* Statement::outMessage, per slot: null flag and value region
    hasRow,         \* the statement was executed and outMessage holds the fetched row
    call,           \* the last Statement operation called, with its arguments
    result,         \* what that call returned or threw
    writes,         \* the buffer writes that call performed, in program order
    cIn,            \* converter specifications: the value given to the conversion
    cOp,            \* converter specifications: the conversion applied to cIn
    cOut,           \* converter specifications: what the conversion returned or threw
    listening,      \* EventListener::listening
    running,        \* EventListener::running
    first,          \* EventListener::first
    eventsHandle,   \* EventListener::eventsHandle, NoHandle when empty
    owner,          \* FirebirdCallback::owner is the listener (not nullptr)
    pendingNotifications, \* EventListener::pendingNotifications
    eventBuffer,    \* the counts in EventListener::eventBuffer
    registrations,  \* the engine: the state of the registration of each handle
    posted,         \* the engine: the count of each event
    handlers,       \* the callback that runs for each handle: position and locals
    stopper,        \* the thread in stop(): position and locals
    dispatcher,     \* the dispatcher thread: position and locals
    previous,       \* the block of the last callback that handleEvent decoded
    txs,            \* each Transaction object: whether it exists, and its handle
    txCalls,        \* the calls the Transaction objects have made to the engine
    txHistory,      \* of each Transaction object: valid when constructed, and
                    \* whether it has been committed, rolled back or moved from
    original,       \* the members of a Statement that is moved from
    moved           \* the members of the Statement move-constructed from it

numVars == <<nFrom, nTo, nPath, nCur>>
stmtVars == <<inDescriptors, outDescriptors, inMessage, outMessage, hasRow, call,
              result, writes>>
convVars == <<cIn, cOp, cOut>>
evVars == <<listening, running, first, eventsHandle, owner, pendingNotifications,
            eventBuffer, registrations, posted, handlers, stopper, dispatcher,
            previous>>
txVars == <<txs, txCalls, txHistory>>
mvVars == <<original, moved>>
vars == <<nFrom, nTo, nPath, nCur, inDescriptors, outDescriptors, inMessage,
          outMessage, hasRow, call, result, writes, cIn, cOp, cOut,
          listening, running, first, eventsHandle, owner, pendingNotifications,
          eventBuffer, registrations, posted, handlers, stopper, dispatcher,
          previous, txs, txCalls, txHistory, original, moved>>

(***************************************************************************)
(* SpecNum: the numeric converter applied to bounded inputs.               *)
(***************************************************************************)
Scales == (0 - MaxScale)..MaxScale

Int16Values ==
    {-32768, -32767, -3277, -3276, -150, -149, -25, -15, -5, -1, 0,
     1, 5, 14, 15, 25, 149, 150, 1000, 3276, 3277, 32767}

Int32Values ==
    Int16Values \cup
    {-2147483647 - 1, -2147483647, -214748365, -214748364, -32769, 32768,
     100000, 327670, 214748364, 214748365, 2147483645, 2147483647}

NumValues(T) == IF T = "INT16" THEN Int16Values ELSE Int32Values

NumInputs ==
    {[type |-> T, value |-> v, scale |-> s] :
        T \in {"INT16"}, v \in Int16Values, s \in Scales}
    \cup
    {[type |-> T, value |-> v, scale |-> s] :
        T \in {"INT32"}, v \in Int32Values, s \in Scales}

NoCall == [op |-> "none", index |-> 0, arg |-> <<>>]
NoResult == [status |-> "none", value |-> <<>>]

\* No statement is being moved.
MvIdle ==
    /\ original = <<>>
    /\ moved = <<>>

\* No transaction exists, and no statement is being moved.
TxIdle ==
    /\ MvIdle
    /\ txs = <<>>
    /\ txCalls = <<>>
    /\ txHistory = <<>>

\* No event listener and no transaction exists.
EvIdle ==
    /\ TxIdle
    /\ listening = FALSE
    /\ running = FALSE
    /\ first = FALSE
    /\ eventsHandle = 0
    /\ owner = FALSE
    /\ pendingNotifications = <<>>
    /\ eventBuffer = <<>>
    /\ registrations = <<>>
    /\ posted = <<>>
    /\ handlers = <<>>
    /\ stopper = <<>>
    /\ dispatcher = <<>>
    /\ previous = <<>>

\* No conversion of the converter specifications is in use, and no object
\* of the other specifications exists.
ConvIdle ==
    /\ cIn = <<>>
    /\ cOp = "none"
    /\ cOut = <<>>
    /\ EvIdle

StmtIdle ==
    /\ inDescriptors = <<>>
    /\ outDescriptors = <<>>
    /\ inMessage = <<>>
    /\ outMessage = <<>>
    /\ hasRow = FALSE
    /\ call = NoCall
    /\ result = NoResult
    /\ writes = <<>>

InitNum ==
    /\ nFrom \in NumInputs
    /\ nTo \in {"INT16", "INT32"}
    /\ nPath = <<>>
    /\ nCur = NumOk(nFrom.value)
    /\ StmtIdle
    /\ ConvIdle

\* numberToNumber<nTo>(nFrom, toScale)
ConvertFirst(toScale) ==
    /\ nPath = <<>>
    /\ nCur' = numberToNumber(nTo, nFrom, toScale)
    /\ nPath' = <<toScale>>
    /\ UNCHANGED <<nFrom, nTo>>
    /\ UNCHANGED stmtVars
    /\ UNCHANGED convVars
    /\ UNCHANGED evVars
    /\ UNCHANGED txVars
    /\ UNCHANGED mvVars

\* The outer call of numberToNumber<nTo>(ScaledNumber<nTo>{numberToNumber<nTo>(
\* nFrom, S2), S2}, toScale): when the inner call threw, the exception
\* propagates and the composition has failed with it.
ConvertAgain(toScale) ==
    /\ Len(nPath) = 1
    /\ nCur' = IF nCur.status = "ok"
               THEN numberToNumber(nTo,
                        [type |-> nTo, value |-> nCur.value, scale |-> nPath[1]],
                        toScale)
               ELSE nCur
    /\ nPath' = Append(nPath, toScale)
    /\ UNCHANGED <<nFrom, nTo>>
    /\ UNCHANGED stmtVars
    /\ UNCHANGED convVars
    /\ UNCHANGED evVars
    /\ UNCHANGED txVars
    /\ UNCHANGED mvVars

NextNum ==
    \/ \E toScale \in Scales : ConvertFirst(toScale)
    \/ \E toScale \in Scales : ConvertAgain(toScale)

SpecNum == InitNum /\ [][NextNum]_vars


(***************************************************************************)
(* Spec: a prepared Statement through one cycle of use: parameters are    *)
(* set in any order and any number of times, the statement is executed,    *)
(* and the columns are read (also before the execution, when the output    *)
(* message is still as constructed).  A later cycle of the same statement  *)
(* meets the same setters and readers over the same kinds of buffers.      *)
(***************************************************************************)
\* The prepared statements: select cast(? as T1), cast(? as T2) from
\* rdb$database for these pairs of types, so that the output descriptors
\* equal the input descriptors (the shape the tests of Statement use).
Statements ==
    { <<Descriptor("BOOLEAN", 0, 1), Descriptor("INT16", 0, 2)>>,
      <<Descriptor("INT32", -1, 4), Descriptor("STRING", 0, 4)>>,
      <<Descriptor("BLOB", 0, 8), Descriptor("BOOLEAN", 0, 1)>> }

\* A zero-filled value region (std::vector<std::byte> value-initialises).
ZeroValue(descriptor) == IF descriptor.adjustedType = "STRING" THEN <<>> ELSE 0

ZeroMessage(descriptors) ==
    [i \in 1..Len(descriptors) |->
        [nullFlag |-> FB_FALSE, value |-> ZeroValue(descriptors[i])]]

\* Arguments of the calls.
BoolArgs == {NullOpt, Some(TRUE), Some(FALSE)}
Int16Args == {NullOpt, Some(5)}
ScaledInt16Args == {Some([value |-> 15, scale |-> -1])}
Int32Args == {Some(40000)}
ScaledInt32Args == {Some([value |-> -25, scale |-> -1])}
\* 2^128 in decimal, the first literal whose magnitude outgrows 128 bits.
TwoTo128Text ==
    << "3", "4", "0", "2", "8", "2", "3", "6", "6", "9", "2", "0", "9",
       "3", "8", "4", "6", "3", "4", "6", "3", "3", "7", "4", "6", "0",
       "7", "4", "3", "1", "7", "6", "8", "2", "1", "1", "4", "5", "6" >>

Texts ==
    { <<"t", "r", "u", "e">>,
      <<" ", "F", "a", "l", "s", "e">>,
      <<"-", "1", ".", "5">>,
      <<"0", ".", "6", "7">>,
      <<"-", "0", ".", "6", "7">>,
      <<"9", "9", "9", "9", "9", "9", "9", "9", "9", "9", "9", "9">>,
      TwoTo128Text,
      <<>>,
      <<"-">>,
      <<"1", "x">> }
StringArgs == {NullOpt} \cup {Some(t) : t \in Texts}

\* Indexes of the calls: every slot and one past the end.
Indexes == 0..Len(inDescriptors)

StmtNumIdle ==
    /\ nFrom = [type |-> "INT16", value |-> 0, scale |-> 0]
    /\ nTo = "INT16"
    /\ nPath = <<>>
    /\ nCur = NumOk(0)

Init ==
    /\ inDescriptors \in Statements
    /\ outDescriptors = inDescriptors
    /\ inMessage = ZeroMessage(inDescriptors)
    /\ outMessage = ZeroMessage(outDescriptors)
    /\ hasRow = FALSE
    /\ call = NoCall
    /\ result = NoResult
    /\ writes = <<>>
    /\ StmtNumIdle
    /\ ConvIdle

\* A setter was called: its writes reach the input message.
SetterCall(op, index, arg, r) ==
    /\ ~hasRow
    /\ call' = [op |-> op, index |-> index, arg |-> arg]
    /\ result' = [status |-> r.status, value |-> NullOpt]
    /\ writes' = r.writes
    /\ inMessage' = ApplyWrites(inMessage, r.writes)
    /\ UNCHANGED <<inDescriptors, outDescriptors, outMessage, hasRow>>
    /\ UNCHANGED numVars
    /\ UNCHANGED convVars
    /\ UNCHANGED evVars
    /\ UNCHANGED txVars
    /\ UNCHANGED mvVars

\* A reader was called: its writes (none in the code) reach the output message.
ReaderCall(op, index, r) ==
    /\ call' = [op |-> op, index |-> index, arg |-> NullOpt]
    /\ result' = [status |-> r.status, value |-> r.value]
    /\ writes' = r.writes
    /\ outMessage' = ApplyWrites(outMessage, r.writes)
    /\ UNCHANGED <<inDescriptors, outDescriptors, inMessage, hasRow>>
    /\ UNCHANGED numVars
    /\ UNCHANGED convVars
    /\ UNCHANGED evVars
    /\ UNCHANGED txVars
    /\ UNCHANGED mvVars

ClearParameters ==
    SetterCall("clearParameters", 0, NullOpt, clearParameters(inDescriptors))

SetNull ==
    \E index \in Indexes :
        SetterCall("setNull", index, NullOpt, setNull(inDescriptors, index))

SetBool ==
    \E index \in Indexes, v \in BoolArgs :
        SetterCall("setBool", index, v, setBool(inDescriptors, index, v))

SetInt16 ==
    \E index \in Indexes, v \in Int16Args :
        SetterCall("setInt16", index, v, setInt16(inDescriptors, index, v))

SetScaledInt16 ==
    \E index \in Indexes, v \in ScaledInt16Args :
        SetterCall("setScaledInt16", index, v, setScaledInt16(inDescriptors, index, v))

SetInt32 ==
    \E index \in Indexes, v \in Int32Args :
        SetterCall("setInt32", index, v, setInt32(inDescriptors, index, v))

SetScaledInt32 ==
    \E index \in Indexes, v \in ScaledInt32Args :
        SetterCall("setScaledInt32", index, v, setScaledInt32(inDescriptors, index, v))

SetString ==
    \E index \in Indexes, v \in StringArgs :
        SetterCall("setString", index, v, setString(inDescriptors, index, v))

\* The engine's null indicator in a fetched row.
EngineNull == -1

\* execute + fetch of select cast(? as T) ...: the engine returns each
\* parameter as the column of the same index; a null column carries the
\* engine's null indicator and unspecified value bytes (here: the stale
\* bytes of the parameter).
execute(message) ==
    [i \in 1..Len(message) |->
        [nullFlag |-> IF message[i].nullFlag # FB_FALSE THEN EngineNull ELSE FB_FALSE,
         value |-> message[i].value]]

Execute ==
    /\ ~hasRow
    /\ hasRow' = TRUE
    /\ call' = [op |-> "execute", index |-> 0, arg |-> NullOpt]
    /\ result' = [status |-> "ok", value |-> NullOpt]
    /\ writes' = <<>>
    /\ outMessage' = execute(inMessage)
    /\ UNCHANGED <<inDescriptors, outDescriptors, inMessage>>
    /\ UNCHANGED numVars
    /\ UNCHANGED convVars
    /\ UNCHANGED evVars
    /\ UNCHANGED txVars
    /\ UNCHANGED mvVars

IsNull ==
    \E index \in Indexes :
        ReaderCall("isNull", index, isNull(outDescriptors, outMessage, index))

GetBool ==
    \E index \in Indexes :
        ReaderCall("getBool", index, getBool(outDescriptors, outMessage, index))

GetInt16 ==
    \E index \in Indexes :
        ReaderCall("getInt16", index, getInt16(outDescriptors, outMessage, index))

GetScaledInt16 ==
    \E index \in Indexes :
        ReaderCall("getScaledInt16", index,
                   getScaledInt16(outDescriptors, outMessage, index))

GetInt32 ==
    \E index \in Indexes :
        ReaderCall("getInt32", index, getInt32(outDescriptors, outMessage, index))

GetScaledInt32 ==
    \E index \in Indexes :
        ReaderCall("getScaledInt32", index,
                   getScaledInt32(outDescriptors, outMessage, index))

GetString ==
    \E index \in Indexes :
        ReaderCall("getString", index, getString(outDescriptors, outMessage, index))

Next ==
    \/ ClearParameters
    \/ SetNull
    \/ SetBool
    \/ SetInt16
    \/ SetScaledInt16
    \/ SetInt32
    \/ SetScaledInt32
    \/ SetString
    \/ Execute
    \/ IsNull
    \/ GetBool
    \/ GetInt16
    \/ GetScaledInt16
    \/ GetInt32
    \/ GetScaledInt32
    \/ GetString

Spec == Init /\ [][Next]_vars

(***************************************************************************)
(* Claims about the numeric converter (checked under SpecNum).             *)
(***************************************************************************)
\* 10^k for 0 <= k <= 9 (10^10 is beyond 32 bits).
RECURSIVE Pow10(_)
Pow10(k) == IF k = 0 THEN 1 ELSE 10 * Pow10(k - 1)

\* v / 10^k rounded half away from zero, k > 0, for |v| <= 2^31.
RoundHalfAway(v, k) ==
    IF k >= 10 THEN 0
    ELSE LET P == Pow10(k)
             q == v \div P
             r == v % P
         IN  IF v >= 0 THEN (IF 2 * r >= P THEN q + 1 ELSE q)
             ELSE (IF 2 * r <= P THEN q ELSE q + 1)

\* v * 10^k lies within the range of integer type T (k > 0), without
\* computing the product.
ProductFits(v, k, T) ==
    IF k >= 10 THEN v = 0
    ELSE LET P == Pow10(k)
             lo == IF MinLimit(T) % P = 0 THEN MinLimit(T) \div P
                   ELSE (MinLimit(T) \div P) + 1
         IN  v >= lo /\ v <= MaxLimit(T) \div P

InRange(v, T) == v >= MinLimit(T) /\ v <= MaxLimit(T)

\* Dividing v by 10^k discards at least one nonzero digit.
DiscardsNonzero(v, k) == IF k >= 10 THEN v # 0 ELSE v % Pow10(k) # 0

\* The first conversion has been applied and it reduced the number of digits.
FirstDiscards == Len(nPath) = 1 /\ nPath[1] > nFrom.scale

\* C8: an integer-to-integer numberToNumber that discards digits returns
\* from.value * 10^(from.scale - toScale) rounded half away from zero, for
\* positive and negative inputs alike, whenever that rounded value fits the
\* destination type.
C8_RoundHalfAwayFromZero ==
    FirstDiscards =>
        LET rounded == RoundHalfAway(nFrom.value, nPath[1] - nFrom.scale)
        IN  InRange(rounded, nTo) =>
                nCur.status = "ok" /\ nCur.value = rounded

\* numberToNumber<int32>(ScaledInt16{-32768, -4}, 0) has returned -3.
C8_Witness ==
    /\ nFrom = [type |-> "INT16", value |-> -32768, scale |-> -4]
    /\ nTo = "INT32"
    /\ nPath = <<0>>
    /\ nCur = NumOk(-3)

\* The exact rescaled (rounded) value of the first conversion fits nTo.
FirstFits ==
    LET k == nPath[1] - nFrom.scale
    IN  IF k > 0 THEN InRange(RoundHalfAway(nFrom.value, k), nTo)
        ELSE IF k < 0 THEN ProductFits(nFrom.value, 0 - k, nTo)
        ELSE InRange(nFrom.value, nTo)

\* C9: an integer-to-integer numberToNumber fails with NumericRange exactly
\* when the rescaled (rounded) value lies outside the destination type's
\* range; every in-range result, the two limits included, is returned.
C9_RangeExact ==
    Len(nPath) = 1 =>
        /\ nCur.status \in {"ok", "NumericRange"}
        /\ (nCur.status = "NumericRange") <=> ~FirstFits

\* 3276 at scale 0 has been multiplied up to 32760 at scale -1 in int16,
\* the last multiple of ten below the limit.
C9_Witness ==
    /\ nFrom.value = 3276 /\ nFrom.scale = 0
    /\ nTo = "INT16"
    /\ nPath = <<-1>>
    /\ nCur = NumOk(32760)

\* The conversion from scale s to scale t of value v discards no nonzero digit.
ExactStep(v, s, t) == t > s => ~DiscardsNonzero(v, t - s)

\* Two conversions S1 -> S2 -> S3 have been composed and neither a step
\* that ran nor the direct conversion S1 -> S3 discards a nonzero digit.
TwoExactSteps ==
    /\ Len(nPath) = 2
    /\ ExactStep(nFrom.value, nFrom.scale, nPath[1])
    /\ ExactStep(nFrom.value, nFrom.scale, nPath[2])
    /\ LET step1 == numberToNumber(nTo, nFrom, nPath[1])
       IN  step1.status = "ok" => ExactStep(step1.value, nPath[1], nPath[2])

\* C10 as claimed: for an exact value, S1 -> S2 -> S3 equals S1 -> S3.
C10_Original ==
    TwoExactSteps => nCur = numberToNumber(nTo, nFrom, nPath[2])

\* C10 as amended: the same, provided neither step of the composition
\* failed with NumericRange.
C10_CompositionWhenInRange ==
    (TwoExactSteps /\ nCur.status = "ok") =>
        nCur = numberToNumber(nTo, nFrom, nPath[2])

\* 1000 at scale 0 went to scale -1 (10000) and back up to scale 2 (10).
C10_Witness ==
    /\ nFrom.value = 1000 /\ nFrom.scale = 0
    /\ nTo = "INT16"
    /\ nPath = <<-1, 2>>
    /\ nCur = NumOk(10)


\* The first conversion applied to the negated input.
NegatedFirst ==
    numberToNumber(nTo, [nFrom EXCEPT !.value = 0 - nFrom.value], nPath[1])

\* C11: for every x other than the source type's minimum and every pair of
\* scales, when numberToNumber succeeds on x and on -x, the result for -x
\* is the negation of the result for x.
C11_RoundingSymmetry ==
    (/\ Len(nPath) = 1
     /\ nFrom.value # MinLimit(nFrom.type)
     /\ nCur.status = "ok"
     /\ NegatedFirst.status = "ok") =>
        NegatedFirst.value = 0 - nCur.value

\* -15 at scale 0 has been converted to scale 1 and gave -2, while 15 gives 2.
C11_Witness ==
    /\ nFrom = [type |-> "INT16", value |-> -15, scale |-> 0]
    /\ nPath = <<1>>
    /\ nCur = NumOk(-2)
    /\ NegatedFirst = NumOk(2)

(***************************************************************************)
(* Claims about the Statement accessors (checked under Spec).              *)
(***************************************************************************)
TypedSetterOps == {"setBool", "setInt16", "setScaledInt16", "setInt32", "setScaledInt32"}
SetterOps == TypedSetterOps \cup {"setString"}
GetterOps == {"getBool", "getInt16", "getScaledInt16", "getInt32", "getScaledInt32",
              "getString"}
ReaderOps == GetterOps \cup {"isNull"}
DataErrors == {"InvalidType", "NumericRange", "StringTruncation",
               "ConversionErrorFromString"}

\* The last call was setX(index, value) with a present value and a valid index.
PresentSet(c) == c.op \in SetterOps /\ HasValue(c.arg) /\ c.index < Len(inDescriptors)
\* The last call was setNull(index) or setX(index, null) with a valid index.
NullingSet(c) ==
    /\ c.op \in SetterOps \cup {"setNull"}
    /\ ~HasValue(c.arg)
    /\ c.index < Len(inDescriptors)
\* The last call was a reader with a valid index.
ValidRead(c) == c.op \in ReaderOps /\ c.index < Len(outDescriptors)

\* C1 as claimed: after a setX(index, value) with a present value failed,
\* the slot at index is null, whatever it held before.
C1_Original ==
    (PresentSet(call) /\ result.status \in DataErrors) =>
        IsNullFlag(inMessage, call.index)

\* C1 as amended: a setX(index, value) that fails leaves the input message
\* as it was before the call, null flags and value regions alike: a slot
\* that was null stays null, a slot that held a value keeps it and stays
\* non-null.
C1_FailedSetLeavesMessageUnchanged ==
    [][(PresentSet(call') /\ result'.status \in DataErrors) =>
            inMessage' = inMessage]_vars

\* setInt32(1, 40000) failed with NumericRange on the INT16 slot that an
\* earlier setInt16(1, 5) had filled: the slot still holds 5 and is not null.
C1_Witness ==
    /\ call = [op |-> "setInt32", index |-> 1, arg |-> Some(40000)]
    /\ result.status = "NumericRange"
    /\ inDescriptors[2].adjustedType = "INT16"
    /\ inMessage[2] = [nullFlag |-> FB_FALSE, value |-> 5]

\* C2: in every setter the write that clears the null flag of slot index is
\* the last write of a call that succeeded, and the write right before it
\* is the write of the value region of the same slot; no call that threw
\* has cleared a null flag.
C2_NullFlagClearedLast ==
    \A k \in 1..Len(writes) :
        (writes[k].kind = "null" /\ writes[k].value = FB_FALSE) =>
            /\ PresentSet(call)
            /\ result.status = "ok"
            /\ writes[k].index = call.index
            /\ k = Len(writes)
            /\ k > 1
            /\ writes[k - 1].kind = "value"
            /\ writes[k - 1].index = call.index

\* setString has written a text into a STRING slot and then cleared its flag.
C2_Witness ==
    /\ call.op = "setString"
    /\ call.index < Len(inDescriptors)
    /\ inDescriptors[call.index + 1].adjustedType = "STRING"
    /\ Len(writes) = 2
    /\ writes[2] = NullWrite(call.index, FB_FALSE)
    /\ inMessage[call.index + 1] = [nullFlag |-> FB_FALSE, value |-> <<"-", "1", ".", "5">>]

\* What a reader returns for a null column.
NullAnswer(op) == IF op = "isNull" THEN TRUE ELSE NullOpt

\* C3 as claimed: right after setX(i, null) or setNull(i), isNull(i) returns
\* true and getX(i) returns null.
C3_Original ==
    [][(NullingSet(call) /\ ValidRead(call') /\ call'.index = call.index) =>
            (result'.status = "ok" /\ result'.value = NullAnswer(call'.op))]_vars

\* C3 as amended: setX(i, null) and setNull(i) set the null flag of
\* parameter i in the input message; once the statement has been executed
\* and returns parameter i as column i, isNull(i) returns true and getX(i)
\* returns null.
C3_NullParameterReadsNull ==
    /\ NullingSet(call) => IsNullFlag(inMessage, call.index)
    /\ (hasRow /\ ValidRead(call) /\ IsNullFlag(inMessage, call.index)) =>
            (result.status = "ok" /\ result.value = NullAnswer(call.op))

\* getInt16(1) has returned null for a parameter that was set to 5 and then
\* to null before the execution: the value bytes still hold the 5.
C3_Witness ==
    /\ hasRow
    /\ call.op = "getInt16" /\ call.index = 1
    /\ inDescriptors[2].adjustedType = "INT16"
    /\ inMessage[2] = [nullFlag |-> FB_TRUE, value |-> 5]
    /\ outMessage[2].value = 5
    /\ result = [status |-> "ok", value |-> NullOpt]

\* Values of every kind a value region may hold.
PoisonValues == <<0, 1, -32768, 400000, <<>>, <<"1", "x">>>>

Poisoned(message, index, v) == [message EXCEPT ![index + 1].value = v]

\* C4: for every getter and every adjustedType, a column whose null flag is
\* nonzero reads as null, whatever its value bytes are.
C4_NullColumnReadsNull ==
    /\ (ValidRead(call) /\ call.op \in GetterOps /\ IsNullFlag(outMessage, call.index)) =>
            (result.status = "ok" /\ result.value = NullOpt)
    /\ \A index \in 0..(Len(outDescriptors) - 1) :
          IsNullFlag(outMessage, index) =>
             \A p \in 1..Len(PoisonValues) :
                LET m == Poisoned(outMessage, index, PoisonValues[p])
                IN  /\ getBool(outDescriptors, m, index) = Returned(NullOpt)
                    /\ getInt16(outDescriptors, m, index) = Returned(NullOpt)
                    /\ getScaledInt16(outDescriptors, m, index) = Returned(NullOpt)
                    /\ getInt32(outDescriptors, m, index) = Returned(NullOpt)
                    /\ getScaledInt32(outDescriptors, m, index) = Returned(NullOpt)
                    /\ getString(outDescriptors, m, index) = Returned(NullOpt)

\* getString has returned null for a null BLOB column, a type it does not
\* handle.
C4_Witness ==
    /\ call.op = "getString"
    /\ call.index < Len(outDescriptors)
    /\ outDescriptors[call.index + 1].adjustedType = "BLOB"
    /\ IsNullFlag(outMessage, call.index)
    /\ result = [status |-> "ok", value |-> NullOpt]

\* The last call was getBool(i) on a column whose adjustedType is INT32.
GetBoolOnInt32 ==
    /\ call.op = "getBool"
    /\ call.index < Len(outDescriptors)
    /\ outDescriptors[call.index + 1].adjustedType = "INT32"

\* C5 as claimed: getBool(i) on an INT32 column fails with InvalidType and
\* writes nothing, in every state of the column's null flag and value.
C5_Original ==
    GetBoolOnInt32 => (result.status = "InvalidType" /\ writes = <<>>)

\* C5 as amended: getBool(i) on an INT32 column fails with InvalidType when
\* the column's null flag is zero and returns null when it is nonzero; in
\* both cases it writes nothing.
C5_GetBoolOnInt32 ==
    GetBoolOnInt32 =>
        /\ writes = <<>>
        /\ IF IsNullFlag(outMessage, call.index)
           THEN result = [status |-> "ok", value |-> NullOpt]
           ELSE result.status = "InvalidType"

\* getBool(0) has failed with InvalidType on a non-null INT32 column.
C5_Witness ==
    /\ GetBoolOnInt32
    /\ outMessage[call.index + 1] = [nullFlag |-> FB_FALSE, value |-> 400000]
    /\ result.status = "InvalidType"

\* The adjustedType a typed setter is named after.
AccessorType(op) ==
    CASE op = "setBool" -> "BOOLEAN"
      [] op \in {"setInt16", "setScaledInt16"} -> "INT16"
      [] op \in {"setInt32", "setScaledInt32"} -> "INT32"

\* The last call was a typed setX(index, value) with a present value.
TypedPresentSet == PresentSet(call) /\ call.op \in TypedSetterOps

\* C6 as claimed: a typed setX with a present value succeeds only on a
\* descriptor whose adjustedType is exactly the accessor's type, and fails
\* with InvalidType on every other adjustedType.
C6_Original ==
    TypedPresentSet =>
        IF inDescriptors[call.index + 1].adjustedType = AccessorType(call.op)
        THEN result.status \in {"ok", "NumericRange"}
        ELSE result.status = "InvalidType"

\* C6 as amended: setBool succeeds exactly on a BOOLEAN descriptor and fails
\* with InvalidType on every other; a numeric setter accepts every integer
\* adjustedType, converting the value to the descriptor's type and scale
\* (NumericRange if it does not fit), and fails with InvalidType exactly on
\* the non-numeric adjustedTypes.
C6_TypeCheckOfSetters ==
    TypedPresentSet =>
        LET type == inDescriptors[call.index + 1].adjustedType
        IN  IF call.op = "setBool"
            THEN result.status = (IF type = "BOOLEAN" THEN "ok" ELSE "InvalidType")
            ELSE IF type \in {"INT16", "INT32"}
                 THEN result.status \in {"ok", "NumericRange"}
                 ELSE result.status = "InvalidType"

\* setInt16(0, 5) has succeeded on an INT32 descriptor of scale -1 and
\* stored 50.
C6_Witness ==
    /\ call = [op |-> "setInt16", index |-> 0, arg |-> Some(5)]
    /\ inDescriptors[1] = Descriptor("INT32", -1, 4)
    /\ result.status = "ok"
    /\ inMessage[1] = [nullFlag |-> FB_FALSE, value |-> 50]

\* C7: no reader, whether it returns a value, returns null or throws,
\* changes a null flag or a value region of the input or output message.
C7_ReadersChangeNothing ==
    [][call'.op \in ReaderOps =>
            (inMessage' = inMessage /\ outMessage' = outMessage)]_vars

\* getInt16(0) has failed with NumericRange on an INT32 column holding
\* 400000 at scale -1.
C7_Witness ==
    /\ call.op = "getInt16" /\ call.index = 0
    /\ outDescriptors[1].adjustedType = "INT32"
    /\ outMessage[1] = [nullFlag |-> FB_FALSE, value |-> 400000]
    /\ result.status = "NumericRange"

(***************************************************************************)
(* Claims about setString on exact-numeric descriptors (checked under      *)
(* Spec).  The value of a literal is computed here on its decimal digits,  *)
(* independently of the 128-bit arithmetic of the code.                    *)
(***************************************************************************)
LiteralNegative(text) == text # <<>> /\ Head(text) = "-"
LiteralBody(text) ==
    IF text # <<>> /\ Head(text) \in {"+", "-"} THEN Tail(text) ELSE text

\* The position of the first '.' of the body, one past its end if none.
LiteralDot(text) ==
    LET body == LiteralBody(text)
    IN  IF \E i \in 1..Len(body) : body[i] = "."
        THEN CHOOSE i \in 1..Len(body) :
                body[i] = "." /\ \A j \in 1..(i - 1) : body[j] # "."
        ELSE Len(body) + 1

LiteralInt(text) == SubSeq(LiteralBody(text), 1, LiteralDot(text) - 1)
LiteralFrac(text) ==
    SubSeq(LiteralBody(text), LiteralDot(text) + 1, Len(LiteralBody(text)))

AllDigits(t) == \A i \in 1..Len(t) : IsDigit(t[i])

\* An optional sign, integer digits and optionally '.' with fractional digits.
WellFormed(text) ==
    /\ LiteralInt(text) # <<>>
    /\ AllDigits(LiteralInt(text))
    /\ AllDigits(LiteralFrac(text))

\* The digits of the literal that remain at scale d <= 0: the integer digits
\* and the first -d fractional digits, padded with zeros.
KeptDigits(text, d) ==
    LiteralInt(text) \o
    [i \in 1..(0 - d) |->
        IF i <= Len(LiteralFrac(text)) THEN LiteralFrac(text)[i] ELSE "0"]

\* The first discarded digit is 5 or more.
LiteralRoundsUp(text, d) ==
    /\ Len(LiteralFrac(text)) > 0 - d
    /\ digitValue(LiteralFrac(text)[1 - d]) >= 5

\* Minus the number written by the digits, or huge when it is below -2^31.
RECURSIVE NegativeOf(_, _)
NegativeOf(digits, acc) ==
    IF digits = <<>> THEN [huge |-> FALSE, value |-> acc]
    ELSE LET digit == digitValue(Head(digits))
         IN  IF acc < -214748364 \/ (acc = -214748364 /\ digit > 8)
             THEN [huge |-> TRUE, value |-> 0]
             ELSE NegativeOf(Tail(digits), acc * 10 - digit)

\* The literal's value at scale d, rounded half away from zero, or huge
\* when it is outside -2^31 .. 2^31 - 1.
LiteralValue(text, d) ==
    LET n == NegativeOf(KeptDigits(text, d), 0)
        up == LiteralRoundsUp(text, d)
    IN  IF n.huge \/ (up /\ n.value = -2147483647 - 1)
        THEN [huge |-> TRUE, value |-> 0]
        ELSE LET m == IF up THEN n.value - 1 ELSE n.value
             IN  IF LiteralNegative(text) THEN [huge |-> FALSE, value |-> m]
                 ELSE IF m = -2147483647 - 1 THEN [huge |-> TRUE, value |-> 0]
                 ELSE [huge |-> FALSE, value |-> 0 - m]

LiteralFits(text, d, T) ==
    ~LiteralValue(text, d).huge /\ InRange(LiteralValue(text, d).value, T)

\* The last call was setString(index, text) with a present text on an INT16
\* or INT32 descriptor.
SetStringOnExactNumeric ==
    /\ call.op = "setString"
    /\ PresentSet(call)
    /\ inDescriptors[call.index + 1].adjustedType \in {"INT16", "INT32"}

StringTarget == inDescriptors[call.index + 1]

\* C12 as claimed: setString with a well-formed literal whose value, rescaled
\* to the descriptor's scale, does not fit the descriptor's integer type
\* fails with NumericRange, however many digits the literal has.
C12_Original ==
    (/\ SetStringOnExactNumeric
     /\ WellFormed(call.arg[1])
     /\ ~LiteralFits(call.arg[1], StringTarget.scale, StringTarget.adjustedType)) =>
        result.status = "NumericRange"

\* C13 as claimed: setString with a malformed literal on an exact-numeric
\* descriptor fails with ConversionErrorFromString.
C13_Original ==
    (SetStringOnExactNumeric /\ ~WellFormed(call.arg[1])) =>
        result.status = "ConversionErrorFromString"

MaxFloatScale == 310

FloatingTypes == {"FLOAT", "DOUBLE"}

\* std::numeric_limits<To>::max_exponent10
MaxExponent10(To) == IF To = "FLOAT" THEN 38 ELSE 308

Abs(n) == IF n < 0 THEN 0 - n ELSE n

\* powerOfTen(scale) = UPPER_PART[scale >> 5] * LOWER_PART[scale & 0x1F], as
\* the exponent of the power of ten; the tables end at scale 319.
powerOfTen(scale) ==
    IF scale >= 0 /\ scale < 320
    THEN [defined |-> TRUE, exponent |-> 32 * (scale \div 32) + (scale % 32)]
    ELSE [defined |-> FALSE, exponent |-> 0]

\* Variant of numberToNumberFloating without the test of the scale against
\* max_exponent10.
numberToNumberFloatingUnguarded(To, from) ==
    IF from.scale = 0
    THEN [status |-> "ok", value |-> [significand |-> from.value, exponent |-> 0]]
    ELSE LET p == powerOfTen(Abs(from.scale))
         IN  IF ~p.defined
             THEN [status |-> "undefined", value |-> <<>>]
             ELSE [status |-> "ok",
                   value |-> [significand |-> from.value,
                              exponent |-> IF from.scale > 0 THEN p.exponent
                                           ELSE 0 - p.exponent]]

\* numberToNumber<To>(ScaledNumber<From>, 0) for a floating To.
numberToNumberFloating(To, from) ==
    IF from.scale = 0
    THEN [status |-> "ok", value |-> [significand |-> from.value, exponent |-> 0]]
    ELSE IF Abs(from.scale) > MaxExponent10(To)
    THEN [status |-> "NumericRange", value |-> <<>>]
    ELSE LET p == powerOfTen(Abs(from.scale))
         IN  IF ~p.defined
             THEN [status |-> "undefined", value |-> <<>>]
             ELSE [status |-> "ok",
                   value |-> [significand |-> from.value,
                              exponent |-> IF from.scale > 0 THEN p.exponent
                                           ELSE 0 - p.exponent]]

(***************************************************************************)
(* CalendarConverter.  A Date is a year_month_day (any three numbers, ok   *)
(* or not); a Time is an hh_mm_ss<microseconds>: a sign and the hours,     *)
(* minutes, seconds and microseconds of the absolute duration.  Durations  *)
(* of a day or more do not fit the checker's integers in microseconds, so  *)
(* they are compared through these fields or counted in ticks of 100       *)
(* microseconds (the ISC_TIME unit).                                       *)
(***************************************************************************)
Date(y, m, d) == [year |-> y, month |-> m, day |-> d]

\* std::chrono::year::is_leap
IsLeap(y) == y % 4 = 0 /\ (y % 100 # 0 \/ y % 400 = 0)

\* The last day of month m of year y (m in 1..12).
LastDay(y, m) ==
    IF m = 2 THEN (IF IsLeap(y) THEN 29 ELSE 28)
    ELSE IF m \in {4, 6, 9, 11} THEN 30 ELSE 31

\* std::chrono::year_month_day::ok
DateOk(date) ==
    /\ date.year >= -32767 /\ date.year <= 32767
    /\ date.month >= 1 /\ date.month <= 12
    /\ date.day >= 1 /\ date.day <= LastDay(date.year, date.month)

ISC_TIME_SECONDS_PRECISION == 10000
TICKS_PER_DAY == 24 * 60 * 60 * ISC_TIME_SECONDS_PRECISION

\* hh_mm_ss<microseconds>
Time(neg, h, m, s, us) ==
    [neg |-> neg, hours |-> h, minutes |-> m, seconds |-> s, subseconds |-> us]

\* Time{microseconds{ticks * 100}} for ticks >= 0
TimeOfTicks(ticks) ==
    Time(FALSE,
         ticks \div (3600 * ISC_TIME_SECONDS_PRECISION),
         (ticks \div (60 * ISC_TIME_SECONDS_PRECISION)) % 60,
         (ticks \div ISC_TIME_SECONDS_PRECISION) % 60,
         (ticks % ISC_TIME_SECONDS_PRECISION) * 100)

\* to_duration().count() < 0
DurationNegative(time) == time.neg

\* to_duration() >= 24h
DurationDayOrMore(time) == ~time.neg /\ time.hours >= 24

\* to_duration().count() / 100 of a time that is not negative
DurationTicks(time) ==
    ((time.hours * 60 + time.minutes) * 60 + time.seconds) * ISC_TIME_SECONDS_PRECISION
        + time.subseconds \div 100

\* Timestamp and the zone-aware values (types.h)
Timestamp(date, time) == [date |-> date, time |-> time]
TimeTz(utcTime, zone) == [utcTime |-> utcTime, zone |-> zone]
TimestampTz(utcTimestamp, zone) == [utcTimestamp |-> utcTimestamp, zone |-> zone]

\* The day number of a civil date counted from BASE_EPOCH, 17 November 1858
\* (local_days{date} - BASE_EPOCH), by the days-from-civil computation.
DaysFromCivil(date) ==
    LET y   == IF date.month <= 2 THEN date.year - 1 ELSE date.year
        era == y \div 400
        yoe == y - era * 400
        mp  == (date.month + 9) % 12
        doy == (153 * mp + 2) \div 5 + date.day - 1
        doe == yoe * 365 + yoe \div 4 - yoe \div 100 + doy
    IN  era * 146097 + doe - 719468 + 40587

\* Date{BASE_EPOCH + days}: the civil date of a day number.
CivilFromDays(days) ==
    LET z   == days - 40587 + 719468
        era == z \div 146097
        doe == z - era * 146097
        yoe == (doe - doe \div 1460 + doe \div 36524 - doe \div 146096) \div 365
        doy == doe - (365 * yoe + yoe \div 4 - yoe \div 100)
        mp  == (5 * doy + 2) \div 153
        d   == doy - (153 * mp + 2) \div 5 + 1
        m   == IF mp < 10 THEN mp + 3 ELSE mp - 9
        y   == yoe + era * 400
    IN  Date(IF m <= 2 THEN y + 1 ELSE y, m, d)

\* The engine's primitives (IUtil), which the converter calls through
\* client->getUtil(): an ISC_DATE is the day number from 17 November 1858,
\* an ISC_TIME the number of ticks from midnight.
encodeDate(year, month, day) == DaysFromCivil(Date(year, month, day))
decodeDate(value) == CivilFromDays(value)
encodeTime(hours, minutes, seconds, fractions) ==
    ((hours * 60 + minutes) * 60 + seconds) * ISC_TIME_SECONDS_PRECISION + fractions
decodeTime(value) ==
    [hours |-> value \div (3600 * ISC_TIME_SECONDS_PRECISION),
     minutes |-> (value \div (60 * ISC_TIME_SECONDS_PRECISION)) % 60,
     seconds |-> (value \div ISC_TIME_SECONDS_PRECISION) % 60,
     fractions |-> value % ISC_TIME_SECONDS_PRECISION]

\* The engine's time zones: the name, the id stored in the opaque value and
\* the offset from UTC in seconds that the engine applies.  The zone rules
\* are reduced to one offset per zone.
ZoneUTC == <<"U", "T", "C">>
ZoneMinus3 == <<"-", "0", "3", ":", "0", "0">>
ZoneSaoPaulo ==
    <<"A", "m", "e", "r", "i", "c", "a", "/", "S", "a", "o", "_", "P", "a", "u", "l", "o">>
ZoneMonrovia ==
    <<"A", "f", "r", "i", "c", "a", "/", "M", "o", "n", "r", "o", "v", "i", "a">>

ZoneTable ==
    << [name |-> ZoneUTC, id |-> 1, offset |-> 0],
       [name |-> ZoneMinus3, id |-> 2, offset |-> 0 - 3 * 3600],
       [name |-> ZoneSaoPaulo, id |-> 3, offset |-> 0 - 3 * 3600],
       [name |-> ZoneMonrovia, id |-> 4, offset |-> 0 - (44 * 60 + 30)] >>

ZoneKnown(name) == \E i \in 1..Len(ZoneTable) : ZoneTable[i].name = name
ZoneOf(name) == ZoneTable[CHOOSE i \in 1..Len(ZoneTable) : ZoneTable[i].name = name]
ZoneById(id) == ZoneTable[CHOOSE i \in 1..Len(ZoneTable) : ZoneTable[i].id = id]

\* encodeTimeTz: the UTC time of a local time in a zone, and the zone's id.
encodeTimeTz(hours, minutes, seconds, fractions, zone) ==
    IF ~ZoneKnown(zone) THEN [status |-> "DelegateError", value |-> <<>>]
    ELSE LET z     == ZoneOf(zone)
             local == encodeTime(hours, minutes, seconds, fractions)
             utc   == local - z.offset * ISC_TIME_SECONDS_PRECISION
         IN  [status |-> "ok",
              value |-> [utc_time |-> utc % TICKS_PER_DAY, time_zone |-> z.id]]

\* decodeTimeTz: the zone name of an opaque time with zone (the local fields
\* it also returns are not used by the operations modelled here).
decodeTimeTz(opaque) == ZoneById(opaque.time_zone).name

\* encodeTimeStampTz: the UTC timestamp of a local timestamp in a zone.
encodeTimeStampTz(year, month, day, hours, minutes, seconds, fractions, zone) ==
    IF ~ZoneKnown(zone) THEN [status |-> "DelegateError", value |-> <<>>]
    ELSE LET z     == ZoneOf(zone)
             local == encodeTime(hours, minutes, seconds, fractions)
             utc   == local - z.offset * ISC_TIME_SECONDS_PRECISION
             shift == IF utc < 0 THEN -1 ELSE IF utc >= TICKS_PER_DAY THEN 1 ELSE 0
         IN  [status |-> "ok",
              value |->
                [utc_timestamp |->
                    [timestamp_date |-> encodeDate(year, month, day) + shift,
                     timestamp_time |-> utc - shift * TICKS_PER_DAY],
                 time_zone |-> z.id]]

decodeTimeStampTz(opaque) == ZoneById(opaque.time_zone).name

CalOk(v) == [status |-> "ok", value |-> v]
CalFail(e) == [status |-> e, value |-> <<>>]

\* static_cast<unsigned>(static_cast<int>(v)) for an int v of 16 bits and a
\* sign, as two limbs of 16 bits: a negative v wraps to 2^32 + v.
toUnsigned(v) ==
    IF v >= 0 THEN [high |-> v \div 65536, low |-> v % 65536]
    ELSE [high |-> 65535, low |-> 65536 + v]

\* The int that the engine reads from an unsigned argument.
fromUnsigned(u) ==
    IF u.high >= 32768 THEN (u.high - 65536) * 65536 + u.low
    ELSE u.high * 65536 + u.low

\* dateToOpaqueDate.  yearValue is unsigned, so that yearValue <= 0 holds
\* for the year 0 only; encodeDate is handed yearValue.
dateToOpaqueDate(date) ==
    IF ~DateOk(date) THEN CalFail("InvalidDate")
    ELSE LET yearValue == toUnsigned(date.year)
         IN  IF yearValue.high = 0 /\ yearValue.low = 0 THEN CalFail("InvalidDate")
             ELSE CalOk(encodeDate(fromUnsigned(yearValue), date.month, date.day))

opaqueDateToDate(value) == decodeDate(value)

\* Variant of timeToOpaqueTime that hands the microseconds to encodeTime
\* without the division by 100.
timeToOpaqueTimeInMicroseconds(time) ==
    CalOk(encodeTime(time.hours, time.minutes, time.seconds, time.subseconds))

timeToOpaqueTime(time) ==
    CalOk(encodeTime(time.hours, time.minutes, time.seconds, time.subseconds \div 100))

opaqueTimeToTime(value) ==
    LET d == decodeTime(value)
    IN  TimeOfTicks(encodeTime(d.hours, d.minutes, d.seconds, 0) + d.fractions)

timeTzToOpaqueTimeTz(timeTz) ==
    IF DurationNegative(timeTz.utcTime) THEN CalFail("InvalidTime")
    ELSE IF DurationDayOrMore(timeTz.utcTime) THEN CalFail("InvalidTime")
    ELSE IF timeTz.utcTime.subseconds % 100 # 0 THEN CalFail("InvalidTime")
    ELSE LET opaque == encodeTimeTz(0, 0, 0, 0, timeTz.zone)
         IN  IF opaque.status # "ok" THEN opaque
             ELSE CalOk([utc_time |-> DurationTicks(timeTz.utcTime),
                         time_zone |-> opaque.value.time_zone])

opaqueTimeTzToTimeTz(opaqueTime) ==
    TimeTz(TimeOfTicks(opaqueTime.utc_time), decodeTimeTz(opaqueTime))

timestampToOpaqueTimestamp(timestamp) ==
    IF ~DateOk(timestamp.date) THEN CalFail("InvalidTimestamp")
    ELSE LET opaqueDate == dateToOpaqueDate(timestamp.date)
         IN  IF opaqueDate.status # "ok" THEN opaqueDate
             ELSE IF DurationNegative(timestamp.time) \/ DurationDayOrMore(timestamp.time)
             THEN CalFail("InvalidTimestamp")
             ELSE IF timestamp.time.neg THEN CalFail("InvalidTimestamp")
             ELSE IF timestamp.time.subseconds % 100 # 0
             THEN CalFail("InvalidTimestamp")
             ELSE CalOk([timestamp_date |-> opaqueDate.value,
                         timestamp_time |->
                            encodeTime(timestamp.time.hours, timestamp.time.minutes,
                                       timestamp.time.seconds,
                                       timestamp.time.subseconds \div 100)])

opaqueTimestampToTimestamp(timestamp) ==
    LET date == decodeDate(timestamp.timestamp_date)
        d    == decodeTime(timestamp.timestamp_time)
        timeOfDay == encodeTime(d.hours, d.minutes, d.seconds, 0) + d.fractions
    IN  IF ~DateOk(date) THEN CalFail("InvalidTimestamp")
        ELSE CalOk(Timestamp(date, TimeOfTicks(timeOfDay)))

timestampTzToOpaqueTimestampTz(timestampTz) ==
    LET opaque == encodeTimeStampTz(1, 1, 1, 0, 0, 0, 0, timestampTz.zone)
    IN  IF opaque.status # "ok" THEN opaque
        ELSE LET utcOpaque == timestampToOpaqueTimestamp(timestampTz.utcTimestamp)
             IN  IF utcOpaque.status # "ok" THEN utcOpaque
                 ELSE CalOk([utc_timestamp |-> utcOpaque.value,
                             time_zone |-> opaque.value.time_zone])

\* Timestamp::fromLocalTime(BASE_EPOCH + ticks), the ticks given as day
\* number and ticks within it
fromLocalTime(days, ticks) ==
    Timestamp(CivilFromDays(days + ticks \div TICKS_PER_DAY),
              TimeOfTicks(ticks % TICKS_PER_DAY))

opaqueTimestampTzToTimestampTz(opaqueTimestamp) ==
    TimestampTz(fromLocalTime(opaqueTimestamp.utc_timestamp.timestamp_date,
                              opaqueTimestamp.utc_timestamp.timestamp_time),
                decodeTimeStampTz(opaqueTimestamp))

(***************************************************************************)
(* The text grammars.  A pattern is the regular expression of a parser as  *)
(* a sequence of items; Match scans the text from the left, each item      *)
(* taking as much as it can, and tries an optional fraction group first    *)
(* with and then without the group, as std::regex_match does.  The result  *)
(* is the sequence of the captured groups, an unmatched group being empty. *)
(***************************************************************************)
Spaces == [t |-> "spaces", n |-> 0, c |-> ""]
Spaces1 == [t |-> "spaces", n |-> 1, c |-> ""]
Digits(n) == [t |-> "digits", n |-> n, c |-> ""]
Lit(c) == [t |-> "lit", n |-> 0, c |-> c]
Fraction == [t |-> "fraction", n |-> 0, c |-> ""]
Zone == [t |-> "zone", n |-> 0, c |-> ""]

\* The number of characters from position pos on that satisfy a test.
RECURSIVE spaceRun(_, _)
spaceRun(text, pos) ==
    IF pos <= Len(text) /\ IsSpace(text[pos]) THEN 1 + spaceRun(text, pos + 1) ELSE 0

RECURSIVE nonSpaceRun(_, _)
nonSpaceRun(text, pos) ==
    IF pos <= Len(text) /\ ~IsSpace(text[pos]) THEN 1 + nonSpaceRun(text, pos + 1) ELSE 0

NoMatch == [matched |-> FALSE, groups |-> <<>>]

RECURSIVE Match(_, _, _, _)
Match(text, pos, pattern, groups) ==
    IF pattern = <<>>
    THEN IF pos = Len(text) + 1 THEN [matched |-> TRUE, groups |-> groups] ELSE NoMatch
    ELSE
    LET item == Head(pattern)
        rest == Tail(pattern)
    IN  CASE item.t = "spaces" ->
                LET k == spaceRun(text, pos)
                IN  IF k < item.n THEN NoMatch
                    ELSE Match(text, pos + k, rest, groups)
          [] item.t = "digits" ->
                IF digitRun(text, pos - 1) < item.n THEN NoMatch
                ELSE Match(text, pos + item.n, rest,
                           Append(groups, SubSeq(text, pos, pos + item.n - 1)))
          [] item.t = "lit" ->
                IF pos <= Len(text) /\ text[pos] = item.c
                THEN Match(text, pos + 1, rest, groups)
                ELSE NoMatch
          [] item.t = "fraction" ->
                LET s1 == pos + spaceRun(text, pos)
                    s2 == s1 + 1 + spaceRun(text, s1 + 1)
                    run == digitRun(text, s2 - 1)
                    k == IF run > 4 THEN 4 ELSE run
                    taken == IF s1 <= Len(text) /\ text[s1] = "." /\ k >= 1
                            THEN Match(text, s2 + k, rest,
                                       Append(groups, SubSeq(text, s2, s2 + k - 1)))
                            ELSE NoMatch
                IN  IF taken.matched THEN taken
                    ELSE Match(text, pos, rest, Append(groups, <<>>))
          [] item.t = "zone" ->
                LET k == nonSpaceRun(text, pos)
                IN  IF k < 1 THEN NoMatch
                    ELSE Match(text, pos + k, rest,
                               Append(groups, SubSeq(text, pos, pos + k - 1)))

\* std::from_chars of a run of digits
RECURSIVE fromChars(_, _)
fromChars(component, acc) ==
    IF component = <<>> THEN acc
    ELSE fromChars(Tail(component), acc * 10 + digitValue(Head(component)))

\* The fraction group as ticks: its digits, padded with zeros to 4 digits.
RECURSIVE padFraction(_, _)
padFraction(fractions, remaining) ==
    IF remaining > 0 THEN padFraction(fractions * 10, remaining - 1) ELSE fractions

fractionTicks(component) ==
    IF Len(component) > 0
    THEN padFraction(fromChars(component, 0), 4 - Len(component))
    ELSE 0

DatePattern ==
    <<Spaces, Digits(4), Spaces, Lit("-"), Spaces, Digits(2), Spaces, Lit("-"),
      Spaces, Digits(2), Spaces>>

stringToDate(value) ==
    LET matches == Match(value, 1, DatePattern, <<>>)
    IN  IF ~matches.matched THEN CalFail("ConversionErrorFromString")
        ELSE LET date == Date(fromChars(matches.groups[1], 0),
                              fromChars(matches.groups[2], 0),
                              fromChars(matches.groups[3], 0))
             IN  IF ~DateOk(date) THEN CalFail("InvalidDate") ELSE CalOk(date)

stringToOpaqueDate(value) ==
    LET date == stringToDate(value)
    IN  IF date.status # "ok" THEN date ELSE dateToOpaqueDate(date.value)

TimePattern ==
    <<Spaces, Digits(2), Spaces, Lit(":"), Spaces, Digits(2), Spaces, Lit(":"),
      Spaces, Digits(2), Fraction, Spaces>>

\* The checks of the time of day that the four parsers of a time share; e
\* is the error of the parser.
timeOfDayOf(hours, minutes, seconds, fractions, e) ==
    IF hours >= 24 \/ minutes >= 60 \/ seconds >= 60 THEN CalFail(e)
    ELSE LET timeOfDay == encodeTime(hours, minutes, seconds, 0) + fractions
         IN  IF timeOfDay >= TICKS_PER_DAY THEN CalFail(e)
             ELSE CalOk(TimeOfTicks(timeOfDay))

stringToTime(value) ==
    LET matches == Match(value, 1, TimePattern, <<>>)
    IN  IF ~matches.matched THEN CalFail("ConversionErrorFromString")
        ELSE timeOfDayOf(fromChars(matches.groups[1], 0),
                         fromChars(matches.groups[2], 0),
                         fromChars(matches.groups[3], 0),
                         fractionTicks(matches.groups[4]), "InvalidTime")

stringToOpaqueTime(value) ==
    LET time == stringToTime(value)
    IN  IF time.status # "ok" THEN time ELSE timeToOpaqueTime(time.value)

TimeTzPattern ==
    <<Spaces, Digits(2), Spaces, Lit(":"), Spaces, Digits(2), Spaces, Lit(":"),
      Spaces, Digits(2), Fraction, Spaces1, Zone, Spaces>>

stringToTimeTz(value) ==
    LET matches == Match(value, 1, TimeTzPattern, <<>>)
    IN  IF ~matches.matched THEN CalFail("ConversionErrorFromString")
        ELSE
        LET hours == fromChars(matches.groups[1], 0)
            minutes == fromChars(matches.groups[2], 0)
            seconds == fromChars(matches.groups[3], 0)
            fractions == fractionTicks(matches.groups[4])
            time == timeOfDayOf(hours, minutes, seconds, fractions, "InvalidTime")
        IN  IF time.status # "ok" THEN time
            ELSE LET encoded == encodeTimeTz(hours, minutes, seconds, fractions,
                                             matches.groups[5])
                 IN  IF encoded.status # "ok" THEN encoded
                     ELSE CalOk(opaqueTimeTzToTimeTz(encoded.value))

stringToOpaqueTimeTz(value) ==
    LET timeTz == stringToTimeTz(value)
    IN  IF timeTz.status # "ok" THEN timeTz ELSE timeTzToOpaqueTimeTz(timeTz.value)

TimestampPattern ==
    <<Spaces, Digits(4), Spaces, Lit("-"), Spaces, Digits(2), Spaces, Lit("-"),
      Spaces, Digits(2), Spaces1, Digits(2), Spaces, Lit(":"), Spaces, Digits(2),
      Spaces, Lit(":"), Spaces, Digits(2), Fraction, Spaces>>

\* The local timestamp that stringToTimestamp and stringToTimestampTz build
\* from the groups of a match.
localTimestampOf(groups) ==
    LET date == Date(fromChars(groups[1], 0), fromChars(groups[2], 0),
                     fromChars(groups[3], 0))
    IN  IF ~DateOk(date) THEN CalFail("InvalidTimestamp")
        ELSE LET time == timeOfDayOf(fromChars(groups[4], 0), fromChars(groups[5], 0),
                                     fromChars(groups[6], 0), fractionTicks(groups[7]),
                                     "InvalidTimestamp")
             IN  IF time.status # "ok" THEN time
                 ELSE CalOk(Timestamp(date, time.value))

stringToTimestamp(value) ==
    LET matches == Match(value, 1, TimestampPattern, <<>>)
    IN  IF ~matches.matched THEN CalFail("ConversionErrorFromString")
        ELSE localTimestampOf(matches.groups)

stringToOpaqueTimestamp(value) ==
    LET timestamp == stringToTimestamp(value)
    IN  IF timestamp.status # "ok" THEN timestamp
        ELSE timestampToOpaqueTimestamp(timestamp.value)

TimestampTzPattern ==
    <<Spaces, Digits(4), Spaces, Lit("-"), Spaces, Digits(2), Spaces, Lit("-"),
      Spaces, Digits(2), Spaces1, Digits(2), Spaces, Lit(":"), Spaces, Digits(2),
      Spaces, Lit(":"), Spaces, Digits(2), Fraction, Spaces1, Zone, Spaces>>

\* localTimestamp.toLocalTime() - utcTimestamp.toLocalTime(), in ticks
offsetDuration(localTimestamp, utcTimestamp) ==
    (DaysFromCivil(localTimestamp.date) - DaysFromCivil(utcTimestamp.date)) * TICKS_PER_DAY
        + DurationTicks(localTimestamp.time) - DurationTicks(utcTimestamp.time)

TicksPerMinute == 60 * ISC_TIME_SECONDS_PRECISION

stringToTimestampTz(value) ==
    LET matches == Match(value, 1, TimestampTzPattern, <<>>)
    IN  IF ~matches.matched THEN CalFail("ConversionErrorFromString")
        ELSE
        LET local == localTimestampOf(matches.groups)
        IN  IF local.status # "ok" THEN local
            ELSE
            LET date == local.value.date
                time == local.value.time
                encoded == encodeTimeStampTz(date.year, date.month, date.day,
                                             time.hours, time.minutes, time.seconds,
                                             time.subseconds \div 100, matches.groups[8])
            IN  IF encoded.status # "ok" THEN encoded
                ELSE
                LET utcTimestamp == opaqueTimestampToTimestamp(encoded.value.utc_timestamp)
                IN  IF utcTimestamp.status # "ok" THEN utcTimestamp
                    ELSE IF offsetDuration(local.value, utcTimestamp.value)
                                % TicksPerMinute # 0
                    THEN CalFail("InvalidTimestamp")
                    ELSE CalOk(TimestampTz(utcTimestamp.value,
                               opaqueTimestampTzToTimestampTz(encoded.value).zone))

stringToOpaqueTimestampTz(value) ==
    LET timestampTz == stringToTimestampTz(value)
    IN  IF timestampTz.status # "ok" THEN timestampTz
        ELSE timestampTzToOpaqueTimestampTz(timestampTz.value)

(***************************************************************************)
(* SpecConv: the conversions that are pure functions of their argument.    *)
(* Init draws the argument, one action applies a conversion to it.         *)
(***************************************************************************)
FloatInputs ==
    {[kind |-> "scaled", value |-> v, scale |-> s] :
        v \in {-32768, 0, 1, 2147483647}, s \in (0 - MaxFloatScale)..MaxFloatScale}

\* The statement and the integer converter are not in use.
OthersIdle ==
    /\ StmtIdle
    /\ StmtNumIdle
    /\ EvIdle

Applied(op, out) ==
    /\ cOp = "none"
    /\ cOp' = op
    /\ cOut' = out
    /\ UNCHANGED cIn
    /\ UNCHANGED numVars
    /\ UNCHANGED stmtVars
    /\ UNCHANGED evVars
    /\ UNCHANGED txVars
    /\ UNCHANGED mvVars

\* numberToNumber<float> / numberToNumber<double>
ToFloating(To) ==
    /\ cIn.kind = "scaled"
    /\ cIn \in FloatInputs
    /\ Applied(To, numberToNumberFloating(To, cIn))


\* Largest scale, in absolute value, of the inputs of numberToString.
MaxTextScale == 12

TextInputs ==
    {[kind |-> "scaled", value |-> v, scale |-> s] :
        v \in Int32Values \cup {-7, 10, 1234567},
        s \in (0 - MaxTextScale)..MaxTextScale}

\* numberToString(ScaledNumber<From>)
NumberToString ==
    /\ cIn.kind = "scaled"
    /\ cIn \in TextInputs
    /\ Applied("numberToString", numberToString(cIn))

(***************************************************************************)
(* The arguments of the calendar conversions.                              *)
(***************************************************************************)
\* Dates, possible and impossible (month 13, day 0 and 32, 29 to 31
\* February, the year 0, years before it).
DateValues ==
    {Date(y, m, d) : y \in {-32767, -1, 0, 1, 2023, 2024, 9999}, m \in {0, 1, 2, 12, 13},
                     d \in {0, 1, 28, 29, 30, 31, 32}}

\* Times of day: negative ones, a day and more, and sub-seconds that are
\* and are not multiples of 100 microseconds.
TimeValues ==
    {Time(neg, h, m, s, us) :
        neg \in BOOLEAN, h \in {0, 13, 23, 24, 25}, m \in {0, 14, 59},
        s \in {0, 15, 59}, us \in {0, 100, 150, 123400, 999900, 999999}}
    \ {Time(TRUE, 0, 0, 0, 0)}

TimestampValues ==
    {Timestamp(date, time) :
        date \in {Date(2024, 2, 29), Date(2023, 2, 29), Date(1, 1, 1),
                  Date(9999, 12, 31), Date(0, 1, 1), Date(2024, 13, 1),
                  Date(-1, 12, 31)},
        time \in {Time(FALSE, 13, 14, 15, 123400), Time(FALSE, 0, 0, 0, 0),
                  Time(FALSE, 23, 59, 59, 999900), Time(FALSE, 24, 0, 0, 0),
                  Time(TRUE, 1, 0, 0, 0), Time(FALSE, 0, 0, 0, 150)}}

ZoneNowhere == <<"N", "o", "w", "h", "e", "r", "e">>

ZoneNames == {ZoneUTC, ZoneMinus3, ZoneSaoPaulo, ZoneMonrovia, ZoneNowhere}

TimeTzValues ==
    {TimeTz(time, zone) :
        time \in {Time(FALSE, 13, 14, 15, 123400), Time(FALSE, 0, 0, 0, 0),
                  Time(FALSE, 23, 59, 59, 999900), Time(FALSE, 24, 0, 0, 0),
                  Time(TRUE, 1, 0, 0, 0), Time(FALSE, 0, 0, 0, 150)},
        zone \in ZoneNames}

TimestampTzValues ==
    {TimestampTz(timestamp, zone) : timestamp \in TimestampValues, zone \in ZoneNames}

\* Texts for stringToDate: well formed, impossible dates, no match.
DateTexts ==
    { <<"2", "0", "2", "4", "-", "0", "2", "-", "2", "9">>,
      <<" ", "9", "9", "9", "9", " ", "-", " ", "1", "2", " ", "-", " ",
         "3", "1", " ">>,
      <<"2", "0", "2", "3", "-", "0", "2", "-", "2", "9">>,
      <<"2", "0", "2", "4", "-", "1", "3", "-", "0", "1">>,
      <<"2", "0", "2", "4", "-", "0", "2", "-", "3", "0">>,
      <<"0", "0", "0", "0", "-", "0", "1", "-", "0", "1">>,
      <<"2", "4", "-", "0", "2", "-", "2", "9">>,
      <<"2", "0", "2", "4", "-", "0", "2", "-", "2", "9", "x">> }

\* Texts for stringToTime.
TimeTexts ==
    { <<"1", "3", ":", "1", "4", ":", "1", "5", ".", "1", "2", "3",
         "4">>,
      <<"0", "0", ":", "0", "0", ":", "0", "0">>,
      <<" ", " ", "2", "3", " ", ":", " ", "5", "9", " ", ":", " ", "5",
         "9", " ", ".", " ", "9", "9", "9", "9", " ", " ">>,
      <<"2", "4", ":", "0", "0", ":", "0", "0">>,
      <<"2", "3", ":", "6", "0", ":", "0", "0">>,
      <<"2", "3", ":", "5", "9", ":", "6", "0">>,
      <<"1", "2", ":", "0", "0", ":", "0", "0", ".", "5">>,
      <<"1", "2", ":", "0", "0", ":", "0", "0", ".", "1", "2", "3", "4",
         "5">>,
      <<"1", ":", "0", "0", ":", "0", "0">> }

\* Texts for stringToTimeTz.
TimeTzTexts ==
    { <<"1", "3", ":", "1", "4", ":", "1", "5", ".", "1", "2", "3", "4",
         " ", "A", "m", "e", "r", "i", "c", "a", "/", "S", "a", "o", "_",
         "P", "a", "u", "l", "o">>,
      <<"1", "1", ":", "1", "4", ":", "1", "5", ".", "1", "2", "3", "4",
         " ", "-", "0", "3", ":", "0", "0">>,
      <<"1", "2", ":", "0", "0", ":", "0", "0", " ", "A", "f", "r", "i",
         "c", "a", "/", "M", "o", "n", "r", "o", "v", "i", "a">>,
      <<"2", "3", ":", "3", "0", ":", "0", "0", ".", "5", " ", "A", "f",
         "r", "i", "c", "a", "/", "M", "o", "n", "r", "o", "v", "i", "a">>,
      <<"1", "2", ":", "0", "0", ":", "0", "0", " ", "U", "T", "C">>,
      <<"2", "5", ":", "0", "0", ":", "0", "0", " ", "U", "T", "C">>,
      <<"1", "2", ":", "0", "0", ":", "0", "0", " ", "N", "o", "w", "h",
         "e", "r", "e">>,
      <<"1", "2", ":", "0", "0", ":", "0", "0", "U", "T", "C">>,
      <<"1", "2", ":", "0", "0", ":", "0", "0", " ", ".", "5">> }

\* Texts for stringToTimestamp.
TimestampTexts ==
    { <<"2", "0", "2", "4", "-", "0", "2", "-", "2", "9", " ", "1", "3",
         ":", "1", "4", ":", "1", "5", ".", "1", "2", "3", "4">>,
      <<" ", " ", "9", "9", "9", "9", " ", "-", " ", "1", "2", " ", "-",
         " ", "3", "1", " ", " ", " ", " ", "2", "3", " ", ":", " ", "5",
         "9", " ", ":", " ", "5", "9", " ", ".", " ", "9", "9", "9", "9",
         " ", " ">>,
      <<"2", "0", "2", "4", "-", "0", "2", "-", "3", "0", " ", "0", "0",
         ":", "0", "0", ":", "0", "0">>,
      <<"2", "0", "2", "4", "-", "0", "2", "-", "2", "9", " ", "2", "4",
         ":", "0", "0", ":", "0", "0">>,
      <<"0", "0", "0", "0", "-", "0", "1", "-", "0", "1", " ", "0", "0",
         ":", "0", "0", ":", "0", "0">>,
      <<"2", "0", "2", "4", "-", "0", "2", "-", "2", "9", "1", "3", ":",
         "1", "4", ":", "1", "5">> }

\* Texts for stringToTimestampTz.
TimestampTzTexts ==
    { <<"2", "0", "2", "4", "-", "0", "2", "-", "2", "9", " ", "1", "3",
         ":", "1", "4", ":", "1", "5", ".", "1", "2", "3", "4", " ", "A",
         "m", "e", "r", "i", "c", "a", "/", "S", "a", "o", "_", "P", "a",
         "u", "l", "o">>,
      <<"2", "0", "2", "4", "-", "0", "2", "-", "2", "9", " ", "2", "3",
         ":", "1", "4", ":", "1", "5", ".", "1", "2", "3", "4", " ", "-",
         "0", "3", ":", "0", "0">>,
      <<"2", "0", "2", "4", "-", "0", "2", "-", "2", "9", " ", "1", "2",
         ":", "0", "0", ":", "0", "0", " ", "A", "f", "r", "i", "c", "a",
         "/", "M", "o", "n", "r", "o", "v", "i", "a">>,
      <<"2", "0", "2", "4", "-", "1", "2", "-", "3", "1", " ", "2", "3",
         ":", "3", "0", ":", "0", "0", " ", "A", "f", "r", "i", "c", "a",
         "/", "M", "o", "n", "r", "o", "v", "i", "a">>,
      <<"2", "0", "2", "4", "-", "0", "2", "-", "2", "9", " ", "1", "2",
         ":", "0", "0", ":", "0", "0", " ", "U", "T", "C">>,
      <<"2", "0", "2", "4", "-", "1", "3", "-", "0", "1", " ", "1", "2",
         ":", "0", "0", ":", "0", "0", " ", "U", "T", "C">>,
      <<"2", "0", "2", "4", "-", "0", "2", "-", "2", "9", " ", "2", "4",
         ":", "0", "0", ":", "0", "0", " ", "U", "T", "C">>,
      <<"2", "0", "2", "4", "-", "0", "2", "-", "2", "9", " ", "1", "2",
         ":", "0", "0", ":", "0", "0", " ", "N", "o", "w", "h", "e", "r",
         "e">> }

CalendarTexts == DateTexts \cup TimeTexts \cup TimeTzTexts \cup TimestampTexts
                    \cup TimestampTzTexts

CalInput(kind, values) == {[kind |-> kind, value |-> v] : v \in values}

\* The encoders, applied to a decomposed value.
DateToOpaqueDate ==
    /\ cIn.kind = "date"
    /\ Applied("dateToOpaqueDate", dateToOpaqueDate(cIn.value))

TimeToOpaqueTime ==
    /\ cIn.kind = "time"
    /\ Applied("timeToOpaqueTime", timeToOpaqueTime(cIn.value))

TimeTzToOpaqueTimeTz ==
    /\ cIn.kind = "timeTz"
    /\ Applied("timeTzToOpaqueTimeTz", timeTzToOpaqueTimeTz(cIn.value))

TimestampToOpaqueTimestamp ==
    /\ cIn.kind = "timestamp"
    /\ Applied("timestampToOpaqueTimestamp", timestampToOpaqueTimestamp(cIn.value))

TimestampTzToOpaqueTimestampTz ==
    /\ cIn.kind = "timestampTz"
    /\ Applied("timestampTzToOpaqueTimestampTz",
               timestampTzToOpaqueTimestampTz(cIn.value))

\* The parsers, applied to a text.
StringToDate ==
    /\ cIn.kind = "text"
    /\ Applied("stringToDate", stringToDate(cIn.value))

StringToTime ==
    /\ cIn.kind = "text"
    /\ Applied("stringToTime", stringToTime(cIn.value))

StringToTimeTz ==
    /\ cIn.kind = "text"
    /\ Applied("stringToTimeTz", stringToTimeTz(cIn.value))

StringToTimestamp ==
    /\ cIn.kind = "text"
    /\ Applied("stringToTimestamp", stringToTimestamp(cIn.value))

StringToTimestampTz ==
    /\ cIn.kind = "text"
    /\ Applied("stringToTimestampTz", stringToTimestampTz(cIn.value))

StringToOpaqueDate ==
    /\ cIn.kind = "text"
    /\ Applied("stringToOpaqueDate", stringToOpaqueDate(cIn.value))

StringToOpaqueTime ==
    /\ cIn.kind = "text"
    /\ Applied("stringToOpaqueTime", stringToOpaqueTime(cIn.value))

StringToOpaqueTimeTz ==
    /\ cIn.kind = "text"
    /\ Applied("stringToOpaqueTimeTz", stringToOpaqueTimeTz(cIn.value))

StringToOpaqueTimestamp ==
    /\ cIn.kind = "text"
    /\ Applied("stringToOpaqueTimestamp", stringToOpaqueTimestamp(cIn.value))

StringToOpaqueTimestampTz ==
    /\ cIn.kind = "text"
    /\ Applied("stringToOpaqueTimestampTz", stringToOpaqueTimestampTz(cIn.value))

\* The decoders, applied to the opaque value that an encoder has returned.
Decoded(encoders, op, out) ==
    /\ cOp \in encoders
    /\ cOut.status = "ok"
    /\ cOp' = op
    /\ cOut' = out
    /\ UNCHANGED cIn
    /\ UNCHANGED numVars
    /\ UNCHANGED stmtVars
    /\ UNCHANGED evVars
    /\ UNCHANGED txVars
    /\ UNCHANGED mvVars

OpaqueDateToDate ==
    Decoded({"dateToOpaqueDate", "stringToOpaqueDate"}, "opaqueDateToDate",
            CalOk(opaqueDateToDate(cOut.value)))

OpaqueTimeToTime ==
    Decoded({"timeToOpaqueTime", "stringToOpaqueTime"}, "opaqueTimeToTime",
            CalOk(opaqueTimeToTime(cOut.value)))

OpaqueTimeTzToTimeTz ==
    Decoded({"timeTzToOpaqueTimeTz", "stringToOpaqueTimeTz"}, "opaqueTimeTzToTimeTz",
            CalOk(opaqueTimeTzToTimeTz(cOut.value)))

OpaqueTimestampToTimestamp ==
    Decoded({"timestampToOpaqueTimestamp", "stringToOpaqueTimestamp"},
            "opaqueTimestampToTimestamp", opaqueTimestampToTimestamp(cOut.value))

OpaqueTimestampTzToTimestampTz ==
    Decoded({"timestampTzToOpaqueTimestampTz", "stringToOpaqueTimestampTz"},
            "opaqueTimestampTzToTimestampTz",
            CalOk(opaqueTimestampTzToTimestampTz(cOut.value)))

\* The argument is one of the scaled numbers or one calendar value or text.
InitConv ==
    /\ \/ cIn \in FloatInputs \cup TextInputs
       \/ cIn \in CalInput("date", DateValues)
       \/ cIn \in CalInput("time", TimeValues)
       \/ cIn \in CalInput("timestamp", TimestampValues)
       \/ cIn \in CalInput("timeTz", TimeTzValues)
       \/ cIn \in CalInput("timestampTz", TimestampTzValues)
       \/ cIn \in CalInput("text", CalendarTexts)
    /\ cOp = "none"
    /\ cOut = <<>>
    /\ OthersIdle

NextConv ==
    \/ \E To \in FloatingTypes : ToFloating(To)
    \/ NumberToString
    \/ DateToOpaqueDate
    \/ TimeToOpaqueTime
    \/ TimeTzToOpaqueTimeTz
    \/ TimestampToOpaqueTimestamp
    \/ TimestampTzToOpaqueTimestampTz
    \/ StringToDate
    \/ StringToTime
    \/ StringToTimeTz
    \/ StringToTimestamp
    \/ StringToTimestampTz
    \/ StringToOpaqueDate
    \/ StringToOpaqueTime
    \/ StringToOpaqueTimeTz
    \/ StringToOpaqueTimestamp
    \/ StringToOpaqueTimestampTz
    \/ OpaqueDateToDate
    \/ OpaqueTimeToTime
    \/ OpaqueTimeTzToTimeTz
    \/ OpaqueTimestampToTimestamp
    \/ OpaqueTimestampTzToTimestampTz

SpecConv == InitConv /\ [][NextConv]_vars

(***************************************************************************)
(* SpecEv: an EventListener from its construction on, with the engine that *)
(* posts events and fires registrations, one call of stop() and the        *)
(* dispatcher thread.                                                      *)
(***************************************************************************)
NoHandler == [pc |-> "none", length |-> 0, events |-> ZeroCounts, newHandle |-> NoHandle]

\* The state after the constructor: the first registration is made and the
\* dispatcher thread started.
InitEv ==
    /\ listening = TRUE
    /\ running = TRUE
    /\ first = FALSE
    /\ eventsHandle = 1
    /\ owner = TRUE
    /\ pendingNotifications = <<>>
    /\ eventBuffer = ZeroCounts
    /\ registrations = [h \in Handles |-> IF h = 1 THEN "active" ELSE "free"]
    /\ posted = ZeroCounts
    /\ handlers = [h \in Handles |-> NoHandler]
    /\ stopper = [pc |-> "idle", handle |-> NoHandle]
    /\ dispatcher = [pc |-> "check"]
    /\ previous = <<>>
    /\ TxIdle
    /\ StmtIdle
    /\ StmtNumIdle
    /\ cIn = <<>>
    /\ cOp = "none"
    /\ cOut = <<>>

EvFrame == UNCHANGED <<numVars, stmtVars, convVars, txVars, mvVars>>
KeepPrevious == UNCHANGED previous

\* The number of events posted so far.
Posts(counts) == counts[1] + counts[2]

\* The engine: an event is posted.
PostEvent(i) ==
    /\ Posts(posted) < MaxPosts
    /\ posted' = [posted EXCEPT ![i] = @ + 1]
    /\ UNCHANGED <<listening, running, first, eventsHandle, owner,
                   pendingNotifications, eventBuffer, registrations, handlers,
                   stopper, dispatcher>>
    /\ KeepPrevious
    /\ EvFrame

\* The engine: an active registration fires and calls eventCallbackFunction
\* with the current counts, or with an empty block.
FireEvent(h, length) ==
    /\ registrations[h] = "active"
    /\ registrations' = [registrations EXCEPT ![h] = "fired"]
    /\ handlers' = [handlers EXCEPT ![h] =
            [pc |-> "callback", length |-> length, events |-> posted,
             newHandle |-> NoHandle]]
    /\ UNCHANGED <<listening, running, first, eventsHandle, owner,
                   pendingNotifications, eventBuffer, posted, stopper,
                   dispatcher>>
    /\ KeepPrevious
    /\ EvFrame

\* FirebirdCallback::eventCallbackFunction: the test of owner.  detach()
\* writes owner with no synchronisation, so that the test reads the pointer
\* to the listener or, once detach() has run, either nullptr or the pointer.
EventCallbackFunction(h) ==
    /\ handlers[h].pc = "callback"
    /\ \E seen \in (IF owner THEN {TRUE} ELSE {TRUE, FALSE}) :
          handlers' = [handlers EXCEPT ![h] =
              IF seen THEN [@ EXCEPT !.pc = "locked"] ELSE NoHandler]
    /\ UNCHANGED <<listening, running, first, eventsHandle, owner,
                   pendingNotifications, eventBuffer, registrations, posted,
                   stopper, dispatcher>>
    /\ KeepPrevious
    /\ EvFrame

\* handleEvent: the first critical section.
HandleEventLocked(h) ==
    /\ handlers[h].pc = "locked"
    /\ LET r == handleEventLocked(
                    [listening |-> listening, first |-> first,
                     eventBuffer |-> eventBuffer,
                     pendingNotifications |-> pendingNotifications],
                    handlers[h].length, handlers[h].events)
       IN  /\ first' = r.state.first
           /\ eventBuffer' = r.state.eventBuffer
           /\ pendingNotifications' = r.state.pendingNotifications
           /\ previous' = IF listening /\ handlers[h].length # 0
                          THEN handlers[h].events ELSE previous
           /\ handlers' = [handlers EXCEPT ![h] =
                    [NoHandler EXCEPT !.pc =
                        IF r.notify THEN "notify"
                        ELSE IF r.shouldRequeue THEN "requeue" ELSE "none"]]
    /\ UNCHANGED <<listening, running, eventsHandle, owner, registrations,
                   posted, stopper, dispatcher>>
    /\ EvFrame

\* handleEvent: condition.notify_one() after the critical section.
HandleEventNotify(h) ==
    /\ handlers[h].pc = "notify"
    /\ dispatcher' = notify(dispatcher)
    /\ handlers' = [handlers EXCEPT ![h].pc = "requeue"]
    /\ UNCHANGED <<listening, running, first, eventsHandle, owner,
                   pendingNotifications, eventBuffer, registrations, posted,
                   stopper>>
    /\ KeepPrevious
    /\ EvFrame

\* handleEvent: the attachment has no handle, or queEvents throws: listening
\* is cleared and the dispatcher notified, under the mutex.
HandleEventRequeueFailed(h) ==
    /\ handlers[h].pc = "requeue"
    /\ listening' = FALSE
    /\ dispatcher' = IF listening THEN notify(dispatcher) ELSE dispatcher
    /\ handlers' = [handlers EXCEPT ![h] = NoHandler]
    /\ UNCHANGED <<running, first, eventsHandle, owner, pendingNotifications,
                   eventBuffer, registrations, posted, stopper>>
    /\ KeepPrevious
    /\ EvFrame

\* handleEvent: queEvents makes a new registration.
HandleEventRequeue(h) ==
    /\ handlers[h].pc = "requeue"
    /\ \E n \in Handles :
        /\ registrations[n] = "free"
        /\ \A m \in Handles : m < n => registrations[m] # "free"
        /\ registrations' = [registrations EXCEPT ![n] = "active"]
        /\ handlers' = [handlers EXCEPT ![h].pc = "assign", ![h].newHandle = n]
    /\ UNCHANGED <<listening, running, first, eventsHandle, owner,
                   pendingNotifications, eventBuffer, posted, stopper,
                   dispatcher>>
    /\ KeepPrevious
    /\ EvFrame

\* handleEvent: the last critical section, which keeps the new handle only
\* while listening; otherwise newHandle goes out of scope.
HandleEventAssign(h) ==
    /\ handlers[h].pc = "assign"
    /\ eventsHandle' = IF listening THEN handlers[h].newHandle ELSE eventsHandle
    /\ handlers' = [handlers EXCEPT ![h] = NoHandler]
    /\ registrations' \in released(registrations, listening, handlers[h].newHandle)
    /\ UNCHANGED <<listening, running, first, owner, pendingNotifications,
                   eventBuffer, posted, stopper, dispatcher>>
    /\ KeepPrevious
    /\ EvFrame

\* stop(): the first critical section.
StopBegin ==
    /\ stopper.pc = "idle"
    /\ IF ~running
       THEN /\ stopper' = [stopper EXCEPT !.pc = "returned"]
            /\ UNCHANGED listening
       ELSE /\ listening' = FALSE
            /\ stopper' = [stopper EXCEPT !.pc = "cancel"]
    /\ UNCHANGED <<running, first, eventsHandle, owner, pendingNotifications,
                   eventBuffer, registrations, posted, handlers, dispatcher>>
    /\ KeepPrevious
    /\ EvFrame

\* cancelEventsHandle: the copy of eventsHandle under the mutex.
CancelEventsHandleRead ==
    /\ stopper.pc = "cancel"
    /\ stopper' = [pc |-> "cancelling", handle |-> eventsHandle]
    /\ UNCHANGED <<listening, running, first, eventsHandle, owner,
                   pendingNotifications, eventBuffer, registrations, posted,
                   handlers, dispatcher>>
    /\ KeepPrevious
    /\ EvFrame

\* cancelEventsHandle: handle->cancel(), which ends the registration of the
\* handle if it has not fired.
CancelEventsHandle ==
    /\ stopper.pc = "cancelling"
    /\ registrations' =
          IF stopper.handle # NoHandle /\ registrations[stopper.handle] = "active"
          THEN [registrations EXCEPT ![stopper.handle] = "cancelled"]
          ELSE registrations
    /\ stopper' = [stopper EXCEPT !.pc = "detach"]
    /\ UNCHANGED <<listening, running, first, eventsHandle, owner,
                   pendingNotifications, eventBuffer, posted, handlers,
                   dispatcher>>
    /\ KeepPrevious
    /\ EvFrame

\* firebirdCallback.detach()
Detach ==
    /\ stopper.pc = "detach"
    /\ owner' = FALSE
    /\ stopper' = [stopper EXCEPT !.pc = "notify"]
    /\ UNCHANGED <<listening, running, first, eventsHandle,
                   pendingNotifications, eventBuffer, registrations, posted,
                   handlers, dispatcher>>
    /\ KeepPrevious
    /\ EvFrame

\* condition.notify_all()
StopNotify ==
    /\ stopper.pc = "notify"
    /\ dispatcher' = notify(dispatcher)
    /\ stopper' = [stopper EXCEPT !.pc = "join"]
    /\ UNCHANGED <<listening, running, first, eventsHandle, owner,
                   pendingNotifications, eventBuffer, registrations, posted,
                   handlers>>
    /\ KeepPrevious
    /\ EvFrame

\* dispatcher.join(), then the last critical section and eventsHandle.reset().
StopJoin ==
    /\ stopper.pc = "join"
    /\ joined(dispatcher)
    /\ pendingNotifications' = <<>>
    /\ running' = FALSE
    /\ eventsHandle' = NoHandle
    /\ stopper' = [stopper EXCEPT !.pc = "returned"]
    /\ UNCHANGED <<listening, first, owner, eventBuffer, registrations, posted,
                   handlers, dispatcher>>
    /\ KeepPrevious
    /\ EvFrame

\* dispatchLoop: condition.wait with its predicate, and what follows under
\* the mutex.
DispatchCheck ==
    /\ dispatcher.pc = "check"
    /\ IF pendingNotifications # <<>>
       THEN /\ dispatcher' = [pc |-> "callback"]
            /\ pendingNotifications' = Tail(pendingNotifications)
       ELSE /\ dispatcher' = [dispatcher EXCEPT
                                !.pc = IF ~listening THEN "exited" ELSE "waiting"]
            /\ UNCHANGED pendingNotifications
    /\ UNCHANGED <<listening, running, first, eventsHandle, owner, eventBuffer,
                   registrations, posted, handlers, stopper>>
    /\ KeepPrevious
    /\ EvFrame

\* dispatchLoop: callback(notification), which returns.
DispatchCallback ==
    /\ dispatcher.pc = "callback"
    /\ dispatcher' = [pc |-> "check"]
    /\ UNCHANGED <<listening, running, first, eventsHandle, owner,
                   pendingNotifications, eventBuffer, registrations, posted,
                   handlers, stopper>>
    /\ KeepPrevious
    /\ EvFrame

\* condition.wait may return without a notification.
SpuriousWake ==
    /\ dispatcher.pc = "waiting"
    /\ dispatcher' = [dispatcher EXCEPT !.pc = "check"]
    /\ UNCHANGED <<listening, running, first, eventsHandle, owner,
                   pendingNotifications, eventBuffer, registrations, posted,
                   handlers, stopper>>
    /\ KeepPrevious
    /\ EvFrame

NextEv ==
    \/ \E i \in EventIndexes : PostEvent(i)
    \/ \E h \in Handles, length \in {0, Len(EventNames)} : FireEvent(h, length)
    \/ \E h \in Handles : EventCallbackFunction(h)
    \/ \E h \in Handles : HandleEventLocked(h)
    \/ \E h \in Handles : HandleEventNotify(h)
    \/ \E h \in Handles : HandleEventRequeueFailed(h)
    \/ \E h \in Handles : HandleEventRequeue(h)
    \/ \E h \in Handles : HandleEventAssign(h)
    \/ StopBegin
    \/ CancelEventsHandleRead
    \/ CancelEventsHandle
    \/ Detach
    \/ StopNotify
    \/ StopJoin
    \/ DispatchCheck
    \/ DispatchCallback
    \/ SpuriousWake

SpecEv == InitEv /\ [][NextEv]_vars

\* The steps of stop() and of the dispatcher thread.
StopStep ==
    \/ StopBegin
    \/ CancelEventsHandleRead
    \/ CancelEventsHandle
    \/ Detach
    \/ StopNotify
    \/ StopJoin

DispatchStep == DispatchCheck \/ DispatchCallback

\* The thread that is in stop() and the dispatcher thread go on running:
\* cancel() returns, the dispatcher is scheduled and the user callback
\* returns.  Nothing is required of the engine: neither that it posts or
\* fires, nor that a callback it has entered goes on.
FairEv ==
    /\ WF_vars(stopper.pc # "idle" /\ StopStep)
    /\ WF_vars(DispatchStep)

SpecEvLive == SpecEv /\ FairEv

(***************************************************************************)
(* SpecTx: a Transaction from its construction on, the Transaction objects *)
(* move-constructed from it and from one another, and their destruction.   *)
(***************************************************************************)
Unborn == [life |-> "unborn", handle |-> NoTransaction]

\* The state after Transaction::Transaction(attachment, options).
InitTx ==
    /\ txs = [t \in Transactions |->
                IF t = 1 THEN [life |-> "alive", handle |-> StartedTransaction]
                ELSE Unborn]
    /\ txCalls = <<>>
    /\ txHistory = [t \in Transactions |-> [born |-> t = 1, ended |-> FALSE]]
    /\ MvIdle
    /\ StmtIdle
    /\ StmtNumIdle
    /\ cIn = <<>>
    /\ cOp = "none"
    /\ cOut = <<>>
    /\ listening = FALSE
    /\ running = FALSE
    /\ first = FALSE
    /\ eventsHandle = 0
    /\ owner = FALSE
    /\ pendingNotifications = <<>>
    /\ eventBuffer = <<>>
    /\ registrations = <<>>
    /\ posted = <<>>
    /\ handlers = <<>>
    /\ stopper = <<>>
    /\ dispatcher = <<>>
    /\ previous = <<>>

TxFrame == UNCHANGED <<numVars, stmtVars, convVars, evVars, mvVars>>

\* The methods that assert(isValid()) are called on a valid object.
Callable(t) ==
    /\ txs[t].life = "alive"
    /\ isValid(txs[t].handle)
    /\ Len(txCalls) < MaxCalls

\* Transaction::commit, with the engine accepting the commit or not.
Commit(t, ok) ==
    /\ Callable(t)
    /\ txCalls' = txCalls \o engineCalls(t, "commit", ok, ok)
    /\ txs' = [txs EXCEPT ![t].handle = commit(@, ok)]
    /\ txHistory' = [txHistory EXCEPT ![t].ended = @ \/ ok]
    /\ TxFrame

\* Transaction::rollback
Rollback(t, ok) ==
    /\ Callable(t)
    /\ txCalls' = txCalls \o engineCalls(t, "rollback", ok, ok)
    /\ txs' = [txs EXCEPT ![t].handle = rollback(@, ok)]
    /\ txHistory' = [txHistory EXCEPT ![t].ended = @ \/ ok]
    /\ TxFrame

\* Transaction::commitRetaining
CommitRetaining(t, ok) ==
    /\ Callable(t)
    /\ txCalls' = txCalls \o engineCalls(t, "commitRetaining", ok, FALSE)
    /\ UNCHANGED <<txs, txHistory>>
    /\ TxFrame

\* Transaction::rollbackRetaining
RollbackRetaining(t, ok) ==
    /\ Callable(t)
    /\ txCalls' = txCalls \o engineCalls(t, "rollbackRetaining", ok, FALSE)
    /\ UNCHANGED <<txs, txHistory>>
    /\ TxFrame

\* Transaction::Transaction(Transaction&& o), o being object t: the next
\* object takes o's handle (FbRef(FbRef&&)), which leaves o.handle null.
MoveConstruct(t) ==
    /\ txs[t].life = "alive"
    /\ \E n \in Transactions :
          /\ txs[n].life = "unborn"
          /\ \A m \in Transactions : m < n => txs[m].life # "unborn"
          /\ txs' = [txs EXCEPT ![n] = [life |-> "alive", handle |-> txs[t].handle],
                                ![t].handle = NoTransaction]
          /\ txHistory' = [txHistory EXCEPT
                  ![n] = [born |-> txHistory[t].born /\ ~txHistory[t].ended,
                          ended |-> FALSE],
                  ![t].ended = TRUE]
    /\ UNCHANGED txCalls
    /\ TxFrame

\* Transaction::~Transaction, then the destruction of the member handle:
\* rollback() if isValid(), its exception swallowed; ~FbRef releases a
\* handle that rollback() has not reset.
Destroy(t, ok) ==
    /\ txs[t].life = "alive"
    /\ txCalls' = IF isValid(txs[t].handle)
                  THEN txCalls \o engineCalls(t, "rollback", ok, TRUE)
                  ELSE txCalls
    /\ txs' = [txs EXCEPT ![t] = [life |-> "destroyed", handle |-> NoTransaction]]
    /\ UNCHANGED txHistory
    /\ TxFrame

NextTx ==
    \/ \E t \in Transactions, ok \in BOOLEAN : Commit(t, ok)
    \/ \E t \in Transactions, ok \in BOOLEAN : Rollback(t, ok)
    \/ \E t \in Transactions, ok \in BOOLEAN : CommitRetaining(t, ok)
    \/ \E t \in Transactions, ok \in BOOLEAN : RollbackRetaining(t, ok)
    \/ \E t \in Transactions : MoveConstruct(t)
    \/ \E t \in Transactions, ok \in BOOLEAN : Destroy(t, ok)

SpecTx == InitTx /\ [][NextTx]_vars

(***************************************************************************)
(* SpecMove: a prepared Statement, the Statement move-constructed from it  *)
(* (Statement(Statement&& o)), and the destruction of the source.          *)
(***************************************************************************)
\* What a pointer or reference member may refer to: the Client, the
\* statusWrapper member of either Statement, or no object at all.
TheClient == "client"
StatusWrapperOf(object) == <<"statusWrapper", object>>
Indeterminate == "indeterminate"

\* impl::CalendarConverter and impl::NumericConverter: client and
\* statusWrapper.
Converter(client, statusWrapper) == [client |-> client, statusWrapper |-> statusWrapper]

\* The values a converter member can hold when it is initialised from
\* itself (calendarConverter{std::move(calendarConverter)}): the member's
\* storage is read before anything was written to it, so each pointer is
\* whatever the storage held.
SelfInitialised ==
    { Converter(c, w) :
        c \in {<<TheClient>>, <<Indeterminate>>},
        w \in {StatusWrapperOf("original"), StatusWrapperOf("moved"),
               <<Indeterminate>>} }

\* The null FbRef and FbUniquePtr.
NullHandle == 0

\* A Statement as its constructor leaves it (the constructor is modelled
\* from the member declarations: the converters are built on the client
\* and on the statement's own statusWrapper).
Prepared(descriptors, message, resultSet, type) ==
    [life |-> "alive",
     attachment |-> "attachment",
     status |-> 1,
     statusWrapper |-> [client |-> <<TheClient>>, status |-> 1],
     calendarConverter |-> Converter(<<TheClient>>, StatusWrapperOf("original")),
     numericConverter |-> Converter(<<TheClient>>, StatusWrapperOf("original")),
     statementHandle |-> 1,
     resultSetHandle |-> resultSet,
     inMetadata |-> 1,
     inDescriptors |-> descriptors,
     inMessage |-> message,
     outMetadata |-> 2,
     outDescriptors |-> descriptors,
     outMessage |-> ZeroMessage(descriptors),
     type |-> type]

NotConstructed == [life |-> "unborn"]

\* The input messages of the statements that are moved.
MovedMessages(descriptors) ==
    {ZeroMessage(descriptors), ApplyWrites(ZeroMessage(descriptors),
                                           clearParameters(descriptors).writes)}

InitMove ==
    /\ \E descriptors \in Statements, resultSet \in {NullHandle, 1},
          type \in {"SELECT", "INSERT"} :
          \E message \in MovedMessages(descriptors) :
              original = Prepared(descriptors, message, resultSet, type)
    /\ moved = NotConstructed
    /\ txs = <<>>
    /\ txCalls = <<>>
    /\ txHistory = <<>>
    /\ StmtIdle
    /\ StmtNumIdle
    /\ cIn = <<>>
    /\ cOp = "none"
    /\ cOut = <<>>
    /\ listening = FALSE
    /\ running = FALSE
    /\ first = FALSE
    /\ eventsHandle = 0
    /\ owner = FALSE
    /\ pendingNotifications = <<>>
    /\ eventBuffer = <<>>
    /\ registrations = <<>>
    /\ posted = <<>>
    /\ handlers = <<>>
    /\ stopper = <<>>
    /\ dispatcher = <<>>
    /\ previous = <<>>

MoveFrame == UNCHANGED <<numVars, stmtVars, convVars, evVars, txVars>>

\* Statement(Statement&& o): each member is initialised from the member of
\* o of the same name, except calendarConverter and numericConverter, which
\* are initialised from themselves.  The FbRef and FbUniquePtr members of o
\* are left null and its vectors empty.
MoveConstructStatement ==
    /\ original.life = "alive"
    /\ moved.life = "unborn"
    /\ \E calendar \in SelfInitialised, numeric \in SelfInitialised :
          moved' = [original EXCEPT !.calendarConverter = calendar,
                                    !.numericConverter = numeric]
    /\ original' = [original EXCEPT
            !.status = NullHandle,
            !.statementHandle = NullHandle,
            !.resultSetHandle = NullHandle,
            !.inMetadata = NullHandle,
            !.inDescriptors = <<>>,
            !.inMessage = <<>>,
            !.outMetadata = NullHandle,
            !.outDescriptors = <<>>,
            !.outMessage = <<>>]
    /\ MoveFrame

\* ~Statement of the source: its members, statusWrapper among them, cease
\* to exist.
DestroyOriginal ==
    /\ original.life = "alive"
    /\ moved.life = "alive"
    /\ original' = [life |-> "destroyed"]
    /\ UNCHANGED moved
    /\ MoveFrame

NextMove ==
    \/ MoveConstructStatement
    \/ DestroyOriginal

SpecMove == InitMove /\ [][NextMove]_vars


(***************************************************************************)
(* Claims about the conversion to floating point (checked under SpecConv). *)
(***************************************************************************)
\* C14 as claimed: converting a scaled integer to a 32-bit or 64-bit float
\* never fails, for every source value and every source scale.
C14_Original ==
    cOp \in FloatingTypes => cOut.status = "ok"

\* C14 as amended: the conversion succeeds for every source value when the
\* source scale is 0 or its absolute value is at most the destination's
\* largest decimal exponent (38 for float, 308 for double), and fails with
\* NumericRange for every source value, 0 included, when it is larger.
C14_FloatingFailsOnlyOnScale ==
    cOp \in FloatingTypes =>
        LET limit == IF cOp = "FLOAT" THEN 38 ELSE 308
        IN  IF 0 - limit <= cIn.scale /\ cIn.scale <= limit
            THEN /\ cOut.status = "ok"
                 /\ cOut.value = [significand |-> cIn.value, exponent |-> cIn.scale]
            ELSE cOut.status = "NumericRange"

\* 0 at scale -39 has been converted to float and the conversion threw.
C14_Witness ==
    /\ cIn = [kind |-> "scaled", value |-> 0, scale |-> -39]
    /\ cOp = "FLOAT"
    /\ cOut.status = "NumericRange"

(***************************************************************************)
(* Claims about numberToString (checked under SpecConv).                   *)
(***************************************************************************)
\* The decimal digits of -n for n <= 0, most significant first.
RECURSIVE DecimalOfNegative(_)
DecimalOfNegative(n) ==
    LET last == (10 - (n % 10)) % 10
        rest == IF n % 10 = 0 THEN n \div 10 ELSE (n \div 10) + 1
    IN  IF n > -10 THEN <<DigitChars[last + 1]>>
        ELSE DecimalOfNegative(rest) \o <<DigitChars[last + 1]>>

RECURSIVE Repeat(_, _)
Repeat(c, n) == IF n <= 0 THEN <<>> ELSE <<c>> \o Repeat(c, n - 1)

\* The fixed-point text of v * 10^s as the claim describes it.
FixedPointText(v, s) ==
    LET digits == DecimalOfNegative(IF v > 0 THEN 0 - v ELSE v)
        sign == IF v < 0 THEN <<"-">> ELSE <<>>
        count == Len(digits)
    IN  IF s >= 0 THEN sign \o digits \o Repeat("0", s)
        ELSE IF count <= 0 - s
             THEN sign \o <<"0", ".">> \o Repeat("0", (0 - s) - count) \o digits
             ELSE sign \o SubSeq(digits, 1, count + s) \o <<".">>
                       \o SubSeq(digits, count + s + 1, count)

\* C16: for every ScaledInt{v, s}, numberToString returns the fixed-point
\* text of v * 10^s: the point -s digits from the right with zero padding
\* and a leading "0." when v has no more than -s digits, s zeros appended
\* for s >= 0, one '-' for a negative v, the type's minimum included.
C16_FixedPointText ==
    cOp = "numberToString" => cOut = FixedPointText(cIn.value, cIn.scale)

\* numberToString(ScaledInt32{1234567, -2}) has returned "12345.67".
C16_Witness ==
    /\ cIn = [kind |-> "scaled", value |-> 1234567, scale |-> -2]
    /\ cOp = "numberToString"
    /\ cOut = <<"1", "2", "3", "4", "5", ".", "6", "7">>

(***************************************************************************)
(* Claims about the calendar conversions.                                  *)
(***************************************************************************)
EncodeOps ==
    {"dateToOpaqueDate", "timeToOpaqueTime", "timeTzToOpaqueTimeTz",
     "timestampToOpaqueTimestamp", "timestampTzToOpaqueTimestampTz"}

ValidationErrors == {"InvalidDate", "InvalidTime", "InvalidTimestamp"}

\* The date and the time of day of an argument of an encoder; the zone of
\* a zone-aware one.
HasTime(in) == in.kind \in {"time", "timeTz", "timestamp", "timestampTz"}
HasDate(in) == in.kind \in {"date", "timestamp", "timestampTz"}
HasZone(in) == in.kind \in {"timeTz", "timestampTz"}

TimeOf(in) ==
    CASE in.kind = "time" -> in.value
      [] in.kind = "timeTz" -> in.value.utcTime
      [] in.kind = "timestamp" -> in.value.time
      [] in.kind = "timestampTz" -> in.value.utcTimestamp.time

DateOf(in) ==
    CASE in.kind = "date" -> in.value
      [] in.kind = "timestamp" -> in.value.date
      [] in.kind = "timestampTz" -> in.value.utcTimestamp.date

ZoneIsKnown(in) == HasZone(in) => ZoneKnown(in.value.zone)

\* C17 (as claimed): every encode of a time, timestamp, time with zone or
\* timestamp with zone whose sub-second part is not a multiple of 100
\* microseconds fails with a validation error.
C17_Original ==
    (/\ cOp \in EncodeOps
     /\ HasTime(cIn)
     /\ ZoneIsKnown(cIn)
     /\ TimeOf(cIn).subseconds % 100 # 0) =>
        cOut.status \in ValidationErrors

\* The zone that a zone-aware parser finds in its text, when the text has
\* the parser's form: the last group of the match.
ZoneAwareParsers == {"stringToTimeTz", "stringToTimestampTz"}

ZonePattern(op) == IF op = "stringToTimeTz" THEN TimeTzPattern ELSE TimestampTzPattern

ZoneGroups(op, text) == Match(text, 1, ZonePattern(op), <<>>)

ZoneOfText(op, text) ==
    LET groups == ZoneGroups(op, text).groups IN groups[Len(groups)]

\* The local wall clock of the text and the UTC value that the engine gives
\* for it differ by the offset of the zone, which is not a whole number of
\* minutes.
SubMinuteOffset(op, text) ==
    /\ ZoneGroups(op, text).matched
    /\ ZoneKnown(ZoneOfText(op, text))
    /\ ZoneOf(ZoneOfText(op, text)).offset % 60 # 0

DaysInMonth(y, m) ==
    CASE m \in {1, 3, 5, 7, 8, 10, 12} -> 31
      [] m \in {4, 6, 9, 11} -> 30
      [] m = 2 -> IF y % 400 = 0 \/ (y % 4 = 0 /\ y % 100 # 0) THEN 29 ELSE 28
      [] OTHER -> 0

ImpossibleDate(date) ==
    date.month < 1 \/ date.month > 12 \/ date.day < 1
        \/ date.day > DaysInMonth(date.year, date.month)

\* A time of day outside the range from 0h up to but excluding 24h.
OutsideDay(time) == time.neg \/ time.hours >= 24

\* The parsers, the pattern of each and the groups that hold the date and
\* the hours in a text of that pattern.
DateParsers == {"stringToDate", "stringToOpaqueDate"}
TimeParsers == {"stringToTime", "stringToOpaqueTime"}
TimeTzParsers == {"stringToTimeTz", "stringToOpaqueTimeTz"}
TimestampParsers == {"stringToTimestamp", "stringToOpaqueTimestamp"}
TimestampTzParsers == {"stringToTimestampTz", "stringToOpaqueTimestampTz"}
ParseOps ==
    DateParsers \cup TimeParsers \cup TimeTzParsers \cup TimestampParsers
        \cup TimestampTzParsers

ParserPattern(op) ==
    CASE op \in DateParsers -> DatePattern
      [] op \in TimeParsers -> TimePattern
      [] op \in TimeTzParsers -> TimeTzPattern
      [] op \in TimestampParsers -> TimestampPattern
      [] op \in TimestampTzParsers -> TimestampTzPattern

TextGroups(op, text) == Match(text, 1, ParserPattern(op), <<>>)

TextHasDate(op) == op \in DateParsers \cup TimestampParsers \cup TimestampTzParsers

TextDate(op, text) ==
    LET groups == TextGroups(op, text).groups
    IN  Date(fromChars(groups[1], 0), fromChars(groups[2], 0), fromChars(groups[3], 0))

TextHours(op, text) ==
    LET groups == TextGroups(op, text).groups
    IN  fromChars(groups[IF op \in TimeParsers \cup TimeTzParsers THEN 1 ELSE 4], 0)

\* The argument of the operation holds an impossible date or a time of day
\* outside the day.
ImpossibleArgument ==
    \/ /\ cOp \in EncodeOps
       /\ ZoneIsKnown(cIn)
       /\ \/ HasDate(cIn) /\ ImpossibleDate(DateOf(cIn))
          \/ HasTime(cIn) /\ OutsideDay(TimeOf(cIn))
    \/ /\ cOp \in ParseOps
       /\ TextGroups(cOp, cIn.value).matched
       /\ \/ TextHasDate(cOp) /\ ImpossibleDate(TextDate(cOp, cIn.value))
          \/ ~(cOp \in DateParsers) /\ TextHours(cOp, cIn.value) >= 24

\* C19 (as claimed): every parser and every encoder fails with InvalidDate,
\* InvalidTime or InvalidTimestamp on an impossible date and on a time of
\* day outside the range from 0h up to but excluding 24h.
C19_Original == ImpossibleArgument => cOut.status \in ValidationErrors

DecodeOps ==
    {"opaqueDateToDate", "opaqueTimeToTime", "opaqueTimeTzToTimeTz",
     "opaqueTimestampToTimestamp", "opaqueTimestampTzToTimestampTz"}

\* A value that the opaque forms represent: a date of the calendar of the
\* years 1 to 9999, a time of day within the day in whole ticks of 100
\* microseconds, a zone the engine knows.
Representable(in) ==
    /\ in.kind # "text"
    /\ HasDate(in) =>
          /\ ~ImpossibleDate(DateOf(in))
          /\ DateOf(in).year >= 1 /\ DateOf(in).year <= 9999
    /\ HasTime(in) =>
          /\ ~OutsideDay(TimeOf(in))
          /\ TimeOf(in).subseconds % 100 = 0
    /\ ZoneIsKnown(in)

\* C20: the encoder of each calendar type accepts every representable
\* value, and the decoder applied to the encoder's result returns the value
\* field for field.
C20_RoundTrip ==
    Representable(cIn) =>
        /\ cOp \in EncodeOps => cOut.status = "ok"
        /\ cOp \in DecodeOps => cOut = CalOk(cIn.value)

\* 13:14:15.1234 has been encoded and decoded again.
C20_Witness ==
    /\ cOp = "opaqueTimeToTime"
    /\ cIn = [kind |-> "time", value |-> Time(FALSE, 13, 14, 15, 123400)]
    /\ cOut = CalOk(cIn.value)

(***************************************************************************)
(* EventListener claims.                                                   *)
(***************************************************************************)
StopReturned == stopper.pc = "returned"

\* The step in which the dispatcher thread calls the user callback.
Delivers == dispatcher.pc # "callback" /\ dispatcher'.pc = "callback"

\* C21: once stop() has returned, isListening() is false and the user
\* callback is not invoked again, whatever the engine posts or fires
\* afterwards and whatever handleEvent was running meanwhile.
C21_StopIsFinal ==
    [][/\ StopReturned' => ~listening' /\ dispatcher'.pc = "exited"
       /\ StopReturned => ~Delivers]_vars

\* stop() has returned, an event was posted that the listener never
\* decoded, and a handleEvent that passed the test of owner before detach()
\* is about to enter its critical section with a block of counts.
C21_Witness ==
    /\ StopReturned
    /\ \E i \in EventIndexes : posted[i] > eventBuffer[i]
    /\ \E h \in Handles : handlers[h].pc = "locked" /\ handlers[h].length # 0

\* C22: at the moment stop() returns, no registration that the listener
\* made with queEvents is still active in the engine.
C22_Original ==
    [][(~StopReturned /\ StopReturned') =>
            \A h \in Handles : registrations'[h] # "active"]_vars

\* C23: a call of stop() returns, under every interleaving of the engine's
\* callbacks, the dispatcher thread and stop() in which every thread goes
\* on running and the user callback returns.
C23_StopReturns == (stopper.pc # "idle") ~> StopReturned

\* stop() has found the dispatcher thread waiting on the condition, while a
\* handleEvent is between its critical sections.
C23_Witness ==
    /\ stopper.pc = "notify"
    /\ dispatcher.pc = "waiting"
    /\ \E h \in Handles : handlers[h].pc \in {"requeue", "assign"}

\* The events whose count is larger in block than in before.
Increased(before, block) == {i \in EventIndexes : block[i] > before[i]}

\* The notification that lists, in registration order, the events of
\* Increased with the amount of the increase.
IncreasesSince(before, block) ==
    LET s == Increased(before, block)
        order == CHOOSE f \in [1..Cardinality(s) -> s] :
                    \A j, k \in 1..Cardinality(s) : j < k => f[j] < f[k]
    IN  [j \in 1..Cardinality(s) |->
            [name |-> EventNames[order[j]],
             count |-> block[order[j]] - before[order[j]]]]

\* The step of the callback of handle h that runs the first critical
\* section of handleEvent.
Decodes(h) == handlers[h].pc = "locked" /\ handlers'[h].pc # "locked"

\* The callback of handle h is one the listener takes: it arrives with a
\* block while the listener listens.
Taken(h) == listening /\ handlers[h].length # 0

\* C24: the first engine callback the listener takes makes its block the
\* baseline and enqueues nothing; every later one enqueues one notification
\* with, in registration order, the events whose count is above that of the
\* previous callback and the increase of each, or nothing when no count
\* increased; a callback the listener does not take enqueues nothing.
C24_CountsSincePrevious ==
    [][\A h \in Handles : Decodes(h) =>
            IF ~Taken(h)
            THEN pendingNotifications' = pendingNotifications
            ELSE IF previous = <<>>
            THEN /\ pendingNotifications' = pendingNotifications
                 /\ eventBuffer' = handlers[h].events
            ELSE /\ eventBuffer' = handlers[h].events
                 /\ pendingNotifications' =
                       IF Increased(previous, handlers[h].events) = {}
                       THEN pendingNotifications
                       ELSE Append(pendingNotifications,
                                   IncreasesSince(previous, handlers[h].events))]_vars

\* Two notifications are in the queue: the first lists the second event
\* alone, the second lists the first event alone, each with its increase.
C24_Witness ==
    /\ Len(pendingNotifications) = 2
    /\ pendingNotifications[1] = <<[name |-> "b", count |-> 1]>>
    /\ pendingNotifications[2] = <<[name |-> "a", count |-> 1]>>

\* The length a bounded queue would not exceed while the user callback
\* runs: less than the number of callbacks that have followed the first
\* two, of which one set the baseline and one is being delivered.
QueueLimit == MaxHandles - 3

\* C25: the length of the queue of pending notifications stays within a
\* fixed limit, however many engine callbacks arrive while the user
\* callback is running.
C25_Original ==
    dispatcher.pc = "callback" => Len(pendingNotifications) <= QueueLimit

(***************************************************************************)
(* Transaction claims.                                                     *)
(***************************************************************************)
\* Object t was valid when constructed and has since had no successful
\* commit() or rollback() and has not been moved from.
Live(t) == txHistory[t].born /\ ~txHistory[t].ended

\* C26: an existing Transaction is valid exactly when it was valid when
\* constructed (always, or as its source was when it is move-constructed)
\* and has since had no successful commit() or rollback() and has not been
\* moved from; commitRetaining(), rollbackRetaining() and failed calls
\* change nothing of it.
C26_ValidUntilEnded ==
    \A t \in Transactions :
        txs[t].life = "alive" => (isValid(txs[t].handle) <=> Live(t))

\* After a commit() that failed and a commitRetaining(), the first object
\* has been moved from and is not valid; the second, move-constructed from
\* it, is valid.
C26_Witness ==
    /\ \E i \in DOMAIN txCalls : txCalls[i].call = "commit" /\ ~txCalls[i].ok
    /\ \E i \in DOMAIN txCalls : txCalls[i].call = "commitRetaining"
    /\ txs[1].life = "alive" /\ ~isValid(txs[1].handle)
    /\ txs[2].life = "alive" /\ isValid(txs[2].handle)

\* The calls made to the engine in a step.
CallsAdded == SubSeq(txCalls', Len(txCalls) + 1, Len(txCalls'))

\* C27: the destruction of a Transaction that was never committed, rolled
\* back or moved from calls rollback exactly once, and nothing else but the
\* release of the handle; the destruction of any other calls nothing.
C27_DestructorRollsBackOnce ==
    [][\A t \in Transactions :
          (txs[t].life = "alive" /\ txs'[t].life = "destroyed") =>
              IF Live(t)
              THEN /\ Cardinality({i \in DOMAIN CallsAdded :
                                     CallsAdded[i].call = "rollback"}) = 1
                   /\ \A i \in DOMAIN CallsAdded :
                         /\ CallsAdded[i].by = t
                         /\ CallsAdded[i].call \in {"rollback", "release"}
              ELSE CallsAdded = <<>>]_vars

\* An object has been destroyed after a rollback() of its own that failed,
\* and another, which had been moved from, without any call of its own.
C27_Witness ==
    /\ \E t \in Transactions :
          /\ txs[t].life = "destroyed"
          /\ \E i, j \in DOMAIN txCalls :
                /\ i < j
                /\ txCalls[i] = [by |-> t, call |-> "rollback", ok |-> FALSE]
                /\ txCalls[j].by = t /\ txCalls[j].call = "rollback"
    /\ \E t \in Transactions :
          /\ txs[t].life = "destroyed"
          /\ txHistory[t].ended
          /\ \A i \in DOMAIN txCalls : txCalls[i].by # t

(***************************************************************************)
(* Statement claims: the frame of the setters, the move constructor.       *)
(***************************************************************************)
IndexedSetterOps == SetterOps \cup {"setNull"}

AllNull(message) == \A j \in DOMAIN message : message[j].nullFlag = FB_TRUE

\* C28: a setter called with index i, whether it succeeds or throws,
\* leaves every slot other than i as it was; clearParameters() sets the
\* null flag of every slot and leaves the values; and when every slot is
\* null, as after clearParameters(), a setter that succeeds with a value
\* for index i leaves slot i, and no other, not null.
C28_SettersTouchOneSlot ==
    [][/\ call'.op \in IndexedSetterOps =>
             \A j \in DOMAIN inMessage :
                 j # call'.index + 1 => inMessage'[j] = inMessage[j]
       /\ call'.op = "clearParameters" =>
             /\ AllNull(inMessage')
             /\ \A j \in DOMAIN inMessage :
                   inMessage'[j].value = inMessage[j].value
       /\ (/\ call'.op \in SetterOps
           /\ HasValue(call'.arg)
           /\ result'.status = "ok"
           /\ AllNull(inMessage)) =>
             \A j \in DOMAIN inMessage :
                 inMessage'[j].nullFlag = FB_FALSE <=> j = call'.index + 1]_vars

\* Both parameters were set and cleared, and then setInt16(1, 5) succeeded:
\* the first slot is null and keeps the value it had, the second is not.
C28_Witness ==
    /\ call = [op |-> "setInt16", index |-> 1, arg |-> Some(5)]
    /\ result.status = "ok"
    /\ inMessage[1] = [nullFlag |-> FB_TRUE, value |-> 1]
    /\ inMessage[2] = [nullFlag |-> FB_FALSE, value |-> 5]

\* The object that a converter's statusWrapper points to exists.
RefersToInitialised(converter) ==
    /\ converter.client = <<TheClient>>
    /\ \/ converter.statusWrapper = StatusWrapperOf("moved")
       \/ /\ converter.statusWrapper = StatusWrapperOf("original")
          /\ original.life = "alive"

\* The members other than the converters.
PlainMembers == {"attachment", "status", "statusWrapper", "statementHandle",
                 "resultSetHandle", "inMetadata", "inDescriptors", "inMessage",
                 "outMetadata", "outDescriptors", "outMessage", "type"}

\* C29: the Statement that the move constructor makes holds every member
\* of its source, is valid, and has a calendar converter and a numeric
\* converter that refer to initialised client and status objects; the
\* source is no longer valid.
C29_Original ==
    moved.life = "alive" =>
        /\ moved.statementHandle # NullHandle
        /\ original.life = "alive" => original.statementHandle = NullHandle
        /\ RefersToInitialised(moved.calendarConverter)
        /\ RefersToInitialised(moved.numericConverter)

\* The members other than the converters are transferred, and the source
\* is left invalid.
C29_PlainMembersTransferred ==
    [][(original.life = "alive" /\ moved'.life = "alive" /\ moved.life = "unborn") =>
          /\ \A m \in PlainMembers : moved'[m] = original[m]
          /\ moved'.statementHandle # NullHandle
          /\ original'.statementHandle = NullHandle]_vars

(***************************************************************************)
(* Calendar claim: the years that reach the encoder.                       *)
(***************************************************************************)
\* C30: dateToOpaqueDate fails with InvalidDate for every date whose year
\* is zero or negative, and so hands no such year to encodeDate.
C30_Original ==
    (cOp = "dateToOpaqueDate" /\ cIn.value.year <= 0) =>
        cOut.status = "InvalidDate"
====
